---- MODULE Spec2Model ----
(***************************************************************************)
(* A model of cfg-rs: the key path (src/src/key.rs), the layered store     *)
(* built through ConfigSourceBuilder (src/src/source/memory.rs) and the    *)
(* placeholder resolver (src/src/configuration.rs).                        *)
(*                                                                         *)
(* Strings are sequences of one-character strings, so that splitting,      *)
(* scanning and truncating are done as the code does them.                 *)
(***************************************************************************)
EXTENDS Integers, Sequences, FiniteSets

(***************************************************************************)
(* Bounds of the model.                                                    *)
(***************************************************************************)
\* longest raw key string normalised in SpecNorm
MaxKeyLen == 4
\* deepest push nesting of a key in SpecKey
MaxDepth == 3
\* largest index pushed as a usize in SpecKey
MaxIndex == 1
\* sources registered in SpecStore (the program's own limit is Configuration.max)
MaxSources == 2
\* builder calls (set, push, insert) made by all sources together
MaxOps == 3
\* longest value of the probe key in SpecResolve
MaxValLen == 4
\* deepest nesting of do_parse_config calls SpecResolve follows
MaxFrames == 6

VARIABLES
    \* SpecNorm: one raw key, normalised once and twice (test::should_eq of key.rs)
    origin,     \* the raw key string
    phase,      \* "in", "once" or "twice"
    norm,       \* normalize_key(origin)
    key,        \* HashKey::default() after push(origin)
    norm2,      \* normalize_key(norm)
    kez,        \* HashKey::default() after push(norm)
    \* SpecKey: one DefaultKey and one HashKey under the same pushes and pops
    dkey,       \* DefaultKey.node
    hkey,       \* HashKey {hasher, current, sub, keys}
    before,     \* history: as_str() as it was before each push not yet popped
    lastOp,     \* "new", "push" or "pop"
    popExpect,  \* history: what the last pop had to restore
    \* SpecStore: a Configuration while sources are registered
    cfg_value,  \* Configuration.source.value: canonical key -> HashValue
    loaders,    \* Configuration.loaders: the cache map of each CacheConfigSource
    mode,       \* "idle", "loading" (inside register_source) or "manual" (a ManualSource)
    src_value,  \* the map of the HashSource the source under load writes to
    builder,    \* the ConfigSourceBuilder handed to the source: {key, count}
    nops,       \* builder calls made so far, by all sources
    gstack,     \* history: the sub keys of the builder's cursor, one entry per push
    first,      \* history: sub-key path -> the value of the first insert there
    pushed,     \* history: every sub-key path a builder push has crossed
    \* SpecResolve: lookups of String values through the placeholder resolver
    conf,       \* Configuration.source.value: canonical key -> HashValue
    frames,     \* the do_parse_config calls in progress, outermost first
    BUF,        \* the thread-local CacheValue {buf, stack} of impl_cache!
    history,    \* the HashSet of raw inner keys handed down the calls
    pc,         \* "idle", "run" (inside Configuration::get), "done" or "panic"
    top,        \* the raw key of the last Configuration::get
    result,     \* what the last Configuration::get returned
    expand,     \* history: the last placeholder the resolver closed
    reentry,    \* history: a placeholder named a key some call in progress is at
    errOrigin,  \* history: where (depth and key of the call) the error of the last lookup was raised
    \* SpecRefresh: a Configuration with refreshable sources and bound RefValues
    srcs,       \* Configuration.loaders: each CacheConfigSource with its origin
    store,      \* Configuration.source.value of the refreshed Configuration
    refs,       \* Refresher.refs: the bound cells, each with the Arc<Mutex<T>> it shares
    rlock,      \* the state of the Mutex of Refresher.refs
    handles,    \* the cells of which the caller still holds a RefValue
    rres,       \* what the last operation returned
    polls,      \* history: how often the last reload polled each origin
    \* SpecTyped: lookups of typed values (scalars, Option, RefValue, structs)
    tget        \* the last typed lookup: its key, its type, what it returned and
                \* (history) how many cells it pushed

normVars == <<origin, phase, norm, key, norm2, kez>>

keyVars == <<dkey, hkey, before, lastOp, popExpect>>

storeVars == <<cfg_value, loaders, mode, src_value, builder, nops, gstack, first, pushed>>

resolveVars == <<conf, frames, BUF, history, pc, top, result, expand, reentry, errOrigin>>

refreshVars == <<srcs, store, refs, rlock, handles, rres, polls>>

typedVars == <<tget>>

vars == <<normVars, keyVars, storeVars, resolveVars, refreshVars, typedVars>>

(***************************************************************************)
(* Characters and strings.                                                 *)
(***************************************************************************)
Digits == <<"0", "1", "2", "3", "4", "5", "6", "7", "8", "9">>

DigitChars == {Digits[i] : i \in 1..Len(Digits)}

DigitVal(c) == (CHOOSE i \in 1..Len(Digits) : Digits[i] = c) - 1

\* every string over the alphabet A of length at most n
StringsUpTo(A, n) == UNION {[1..m -> A] : m \in 0..n}

RECURSIVE Concat(_)
\* the concatenation of a sequence of strings
Concat(ss) == IF ss = <<>> THEN <<>> ELSE Head(ss) \o Concat(Tail(ss))

\* str::find for a set of characters: the first position (1-based) of a
\* character of pat in s, 0 when there is none
Find(s, pat) ==
    IF \E i \in 1..Len(s) : s[i] \in pat
    THEN CHOOSE i \in 1..Len(s) : s[i] \in pat /\ \A j \in 1..(i - 1) : s[j] \notin pat
    ELSE 0

\* the element of a one-element set; recursive operators take their
\* arguments through it, which binds each argument to its value once
Only(S) == CHOOSE x \in S : TRUE

\* s[from..] of Rust, with from 0-based
Suffix(s, from) == SubSeq(s, from + 1, Len(s))

\* s[..to] of Rust, with to 0-based and exclusive
Prefix(s, to) == SubSeq(s, 1, to)

(***************************************************************************)
(* key.rs: sub keys.                                                       *)
(***************************************************************************)
KeySeparators == {".", "[", "]"}

RECURSIVE SplitFrom(_, _, _, _)
SplitFrom(s_, i_, tok_, acc_) ==
    Only({
        IF i > Len(s) THEN Append(acc, tok)
        ELSE IF s[i] \in KeySeparators THEN SplitFrom(s, i + 1, <<>>, Append(acc, tok))
        ELSE SplitFrom(s, i + 1, Append(tok, s[i]), acc)
        : s \in {s_}, i \in {i_}, tok \in {tok_}, acc \in {acc_}})

\* str::split(&['.', '[', ']']): the tokens between separators, empty ones included
Split(s) == SplitFrom(s, 1, <<>>, <<>>)

RECURSIVE DigitsValue(_, _)
DigitsValue(ds, acc) ==
    IF ds = <<>> THEN acc ELSE DigitsValue(Tail(ds), acc * 10 + DigitVal(Head(ds)))

\* str::parse::<usize>: an optional '+', then at least one digit and only digits.
\* (The strings of the model are too short to overflow a usize.)
ParseUsize(tok) ==
    LET ds == IF tok # <<>> /\ Head(tok) = "+" THEN Tail(tok) ELSE tok
    IN  IF ds # <<>> /\ \A i \in 1..Len(ds) : ds[i] \in DigitChars
        THEN [ok |-> TRUE, v |-> DigitsValue(ds, 0)]
        ELSE [ok |-> FALSE, v |-> 0]

RECURSIVE UsizeToString(_)
\* usize::to_string
UsizeToString(n) ==
    IF n < 10 THEN <<Digits[n + 1]>> ELSE Append(UsizeToString(n \div 10), Digits[(n % 10) + 1])

SubKeyStr(s) == [t |-> "Str", s |-> s, i |-> 0]

SubKeyInt(i) == [t |-> "Int", s |-> <<>>, i |-> i]

\* the closure of the map in Into<SubKeySeq> for &str
ClassifyToken(f) ==
    LET p == ParseUsize(f) IN IF p.ok THEN SubKeyInt(p.v) ELSE SubKeyStr(f)

\* the filter of Into<SubKeySeq> for &str dropping tokens of blanks too
KeepTokenNotBlank(a) == \E i \in 1..Len(a) : a[i] # " "

\* the predicate of the filter in Into<SubKeySeq> for &str
KeepToken(a) == a # <<>>

RECURSIVE FilterMapTokens(_)
FilterMapTokens(toks_) ==
    Only({
        IF toks = <<>> THEN <<>>
        ELSE IF KeepToken(Head(toks))
             THEN <<ClassifyToken(Head(toks))>> \o FilterMapTokens(Tail(toks))
             ELSE FilterMapTokens(Tail(toks))
        : toks \in {toks_}})

\* Into<SubKeySeq> for &str
SubKeySeqOfStr(s) == FilterMapTokens(Split(s))

\* Into<SubKeySeq> for usize
SubKeySeqOfInt(i) == <<SubKeyInt(i)>>

\* AppendSubKey without the test for an empty string: a '.' before every name
AppendSubKeyDotAlways(current, sub) ==
    IF sub.t = "Str"
    THEN Append(current, ".") \o sub.s
    ELSE current \o <<"[">> \o UsizeToString(sub.i) \o <<"]">>

\* AppendSubKey with indices written one-based
AppendSubKeyOneBased(current, sub) ==
    IF sub.t = "Str"
    THEN (IF current # <<>> THEN Append(current, ".") ELSE current) \o sub.s
    ELSE current \o <<"[">> \o UsizeToString(sub.i + 1) \o <<"]">>

\* the match of HashKey::push and of KeyNode::new: append one sub key to the
\* canonical string
AppendSubKey(current, sub) ==
    IF sub.t = "Str"
    THEN (IF current # <<>> THEN Append(current, ".") ELSE current) \o sub.s
    ELSE current \o <<"[">> \o UsizeToString(sub.i) \o <<"]">>

(***************************************************************************)
(* key.rs: DefaultKey.                                                     *)
(***************************************************************************)
RECURSIVE RenderKeys(_, _)
RenderKeys(key_long_, keys_) ==
    Only({
        IF keys = <<>> THEN key_long
        ELSE RenderKeys(AppendSubKey(key_long, Head(keys)), Tail(keys))
        : key_long \in {key_long_}, keys \in {keys_}})

\* KeyNode::new
KeyNodeNew(keys, parent) ==
    [keys |-> keys,
     key_long |-> RenderKeys(IF parent = <<>> THEN <<>> ELSE parent[1].key_long, keys)]

DefaultKeyNew == <<>>

DefaultKeyAsStr(node) == IF node # <<>> THEN node[Len(node)].key_long ELSE <<>>

DefaultKeyPush(node, seq) ==
    Append(node, KeyNodeNew(seq, IF node = <<>> THEN <<>> ELSE <<node[Len(node)]>>))

DefaultKeyPop(node) == IF node = <<>> THEN node ELSE SubSeq(node, 1, Len(node) - 1)

\* normalize_key
normalize_key(k) == DefaultKeyAsStr(DefaultKeyPush(DefaultKeyNew, SubKeySeqOfStr(k)))

(***************************************************************************)
(* key.rs: HashKey.  The hasher is modelled by the sequence of sub keys    *)
(* hashed so far (two hashers are equal iff they absorbed the same sub     *)
(* keys: collisions of DefaultHasher are not modelled).                    *)
(***************************************************************************)
HashKeyNew == [hasher |-> <<>>, current |-> <<>>, sub |-> <<>>, keys |-> <<>>]

RECURSIVE HashKeyPushLoop(_, _, _)
\* the for loop of HashKey::push; size counts the sub keys pushed
HashKeyPushLoop(k_, v_, size_) ==
    Only({
        IF v = <<>> THEN [k EXCEPT !.sub = Append(@, size)]
        ELSE LET sub == Head(v)
                 curr == k.current
                 hash == k.hasher
             IN  HashKeyPushLoop(
                     [k EXCEPT !.current = AppendSubKey(curr, sub),
                               !.hasher = Append(hash, sub),
                               !.keys = Append(@, [h |-> hash, s |-> sub, c |-> curr])],
                     Tail(v), size + 1)
        : k \in {k_}, v \in {v_}, size \in {size_}})

HashKeyPush(k, seq) == HashKeyPushLoop(k, seq, 0)

\* HashKey::pop restoring from the last entry drained instead of the first
HashKeyPopLast(k) ==
    IF k.sub = <<>> THEN k
    ELSE LET s == k.sub[Len(k.sub)]
             rest == [k EXCEPT !.sub = SubSeq(@, 1, Len(@) - 1)]
         IN  IF s > 0
             THEN LET drained == k.keys[Len(k.keys)]
                  IN  [rest EXCEPT !.hasher = drained.h,
                                   !.current = drained.c,
                                   !.keys = SubSeq(@, 1, Len(@) - s)]
             ELSE rest

\* HashKey::pop: restore hasher and current from the first entry drained
HashKeyPop(k) ==
    IF k.sub = <<>> THEN k
    ELSE LET s == k.sub[Len(k.sub)]
             rest == [k EXCEPT !.sub = SubSeq(@, 1, Len(@) - 1)]
         IN  IF s > 0
             THEN LET drained == k.keys[Len(k.keys) - s + 1]
                  IN  [rest EXCEPT !.hasher = drained.h,
                                   !.current = drained.c,
                                   !.keys = SubSeq(@, 1, Len(@) - s)]
             ELSE rest

HashKeyAsStr(k) == k.current

\* PartialEq for HashKey
HashKeyEq(a, b) == IF a.hasher # b.hasher THEN FALSE ELSE a.current = b.current


(***************************************************************************)
(* source/memory.rs: HashValue, ConfigSourceBuilder, HashSource.           *)
(***************************************************************************)
None == <<>>

Some(x) == <<x>>

\* HashValue::new
HashValueNew == [sub_str |-> {}, sub_int |-> None, value |-> None]

\* push_val without the test for a value already there: last wins
push_val_LastWins(hv, val) == [hv EXCEPT !.value = Some(val)]

\* HashValue::push_val: first wins
push_val(hv, val) == IF hv.value = None THEN [hv EXCEPT !.value = Some(val)] ELSE hv

\* push_key that keeps the latest index instead of the largest
push_key_Latest(hv, k) ==
    IF k.t = "Str"
    THEN [hv EXCEPT !.sub_str = @ \cup {k.s}]
    ELSE [hv EXCEPT !.sub_int = Some(k.i)]

\* HashValue::push_key
push_key(hv, k) ==
    IF k.t = "Str"
    THEN [hv EXCEPT !.sub_str = @ \cup {k.s}]
    ELSE LET v == IF hv.sub_int = None THEN k.i ELSE hv.sub_int[1]
         IN  [hv EXCEPT !.sub_int = Some(IF v < k.i THEN k.i ELSE v)]

\* map.entry(k).or_insert_with(HashValue::new)
Entry(map, k) ==
    [x \in DOMAIN map \cup {k} |-> IF x \in DOMAIN map THEN map[x] ELSE HashValueNew]

\* PartialKeyIter of a &str: the sub keys of the raw key, in order
PartialKeyIterOfStr(s) == SubKeySeqOfStr(s)

\* PartialKeyIter of a usize
PartialKeyIterOfInt(i) == SubKeySeqOfInt(i)

\* PartialKey::update_string
update_string(curr, k) == AppendSubKey(curr, k)

\* HashSource::prefixed
BuilderNew == [key |-> <<>>, count |-> 0]

\* ConfigSourceBuilder::curr
BuilderCurr(b) == IF b.key = <<>> THEN <<>> ELSE b.key[Len(b.key)]

RECURSIVE BuilderPushLoop(_, _, _)
\* the for loop of ConfigSourceBuilder::push: [map, curr] after the sub keys of iter
BuilderPushLoop(map, curr, iter) ==
    IF iter = <<>> THEN [map |-> map, curr |-> curr]
    ELSE LET k == Head(iter)
             m == Entry(map, curr)
         IN  BuilderPushLoop([m EXCEPT ![curr] = push_key(@, k)],
                             update_string(curr, k), Tail(iter))

\* ConfigSourceBuilder::push: [b, map] afterwards
BuilderPush(b, map, iter) ==
    LET r == BuilderPushLoop(map, BuilderCurr(b), iter)
    IN  [b |-> [b EXCEPT !.key = Append(@, r.curr)], map |-> r.map]

\* ConfigSourceBuilder::pop
BuilderPop(b) ==
    [b EXCEPT !.key = IF @ = <<>> THEN @ ELSE SubSeq(@, 1, Len(@) - 1)]

\* ConfigSourceBuilder::insert: [b, map] afterwards
BuilderInsert(b, map, value) ==
    LET curr == BuilderCurr(b)
        m == Entry(map, curr)
    IN  [b |-> [b EXCEPT !.count = @ + 1],
         map |-> [m EXCEPT ![curr] = push_val(@, value)]]

\* ConfigSourceBuilder::set: push, insert, pop
BuilderSet(b, map, iter, v) ==
    LET p == BuilderPush(b, map, iter)
        i == BuilderInsert(p.b, p.map, v)
    IN  [b |-> BuilderPop(i.b), map |-> i.map]

\* the keys of a HashSource that hold a value
ValuedKeys(value) == {k \in DOMAIN value : value[k].value # None}

RECURSIVE HashSourceLoadLoop(_, _, _, _)
\* HashSource::load: every valued key of the source is set through the builder;
\* order is the order in which the HashMap yields its keys
HashSourceLoadLoop(value, order, b, map) ==
    IF order = <<>> THEN [b |-> b, map |-> map]
    ELSE LET k == Head(order)
             r == BuilderSet(b, map, PartialKeyIterOfStr(k), value[k].value[1])
         IN  HashSourceLoadLoop(value, Tail(order), r.b, r.map)

HashSourceLoad(value, order, b, map) == HashSourceLoadLoop(value, order, b, map)

\* HashSource::get_value
get_value(value, k) == IF k \in DOMAIN value THEN value[k].value ELSE None

\* SubKeyList::new
SubKeyListNew == [str_key |-> {}, int_key |-> None]

\* SubKeyList::insert_int
insert_int(list, k) ==
    IF list.int_key # None /\ list.int_key[1] > k THEN list
    ELSE [list EXCEPT !.int_key = Some(k + 1)]

\* HashSource::collect_keys into a new collector
collect_keys(value, prefix) ==
    IF prefix \in DOMAIN value
    THEN LET v == value[prefix]
             c == [SubKeyListNew EXCEPT !.str_key = v.sub_str]
         IN  IF v.sub_int # None THEN insert_int(c, v.sub_int[1]) ELSE c
    ELSE SubKeyListNew

\* every ordering of a finite set
Orderings(S) == {o \in [1..Cardinality(S) -> S] : \A i, j \in 1..Cardinality(S) : o[i] = o[j] => i = j}

(***************************************************************************)
(* configuration.rs and value.rs: lookups in a store whose values hold no   *)
(* placeholder character, which parse_placeholder hands back as they are.  *)
(***************************************************************************)
PlaceholderPat == {"$", "\\", "}"}

\* the fast path of parse_placeholder: value.find(pat) finds nothing
IsPlain(s) == Find(s, PlaceholderPat) = 0

\* Configuration::get up to the lookup: the context's key after push(raw)
ContextKey(raw) == HashKeyPush(HashKeyNew, SubKeySeqOfStr(raw))

\* do_parse_config::<Option<String>> at the key k, for a plain value:
\* String::from_config gives ConfigNotFound for no value, which
\* Option::from_config turns into None
OptStringAt(value, k) ==
    LET v == get_value(value, HashKeyAsStr(k))
    IN  IF v = None THEN [ok |-> TRUE, v |-> None]
        ELSE IF IsPlain(v[1]) THEN [ok |-> TRUE, v |-> Some(v[1])]
        ELSE [ok |-> FALSE, v |-> None]

RECURSIVE VecLoop(_, _, _, _, _)
\* the for loop of Vec::from_config: do_parse_config(i) for i in 0..v
VecLoop(value, k, i, v, vs) ==
    IF i >= v THEN [ok |-> TRUE, v |-> vs]
    ELSE LET e == OptStringAt(value, HashKeyPush(k, SubKeySeqOfInt(i)))
         IN  IF e.ok THEN VecLoop(value, k, i + 1, v, Append(vs, e.v))
             ELSE [ok |-> FALSE, v |-> <<>>]

\* Configuration::get::<Vec<Option<String>>>(raw)
GetVecOptString(value, raw) ==
    LET k == ContextKey(raw)
        list == collect_keys(value, HashKeyAsStr(k))
    IN  IF list.int_key # None THEN VecLoop(value, k, 0, list.int_key[1], <<>>)
        ELSE [ok |-> TRUE, v |-> <<>>]

\* Configuration::get::<Option<String>>(raw)
GetOptString(value, raw) == OptStringAt(value, ContextKey(raw))

(***************************************************************************)
(* The variables of a specification that another one leaves alone.         *)
(***************************************************************************)
NormIdle ==
    /\ origin = <<>>
    /\ phase = "off"
    /\ norm = <<>>
    /\ key = HashKeyNew
    /\ norm2 = <<>>
    /\ kez = HashKeyNew

KeyIdle ==
    /\ dkey = DefaultKeyNew
    /\ hkey = HashKeyNew
    /\ before = <<>>
    /\ lastOp = "off"
    /\ popExpect = <<>>

StoreIdle ==
    /\ cfg_value = <<>>
    /\ loaders = <<>>
    /\ mode = "off"
    /\ src_value = <<>>
    /\ builder = BuilderNew
    /\ nops = 0
    /\ gstack = <<>>
    /\ first = <<>>
    /\ pushed = {}

ResolveIdle ==
    /\ conf = <<>>
    /\ frames = <<>>
    /\ BUF = [buf |-> <<>>, stack |-> <<>>]
    /\ history = {}
    /\ pc = "off"
    /\ top = <<>>
    /\ result = [kind |-> "None", a |-> <<>>, b |-> <<>>]
    /\ expand = [seen |-> FALSE]
    /\ reentry = FALSE
    /\ errOrigin = [why |-> "none", depth |-> 0]

RefreshIdle ==
    /\ srcs = <<>>
    /\ store = <<>>
    /\ refs = <<>>
    /\ rlock = "off"
    /\ handles = {}
    /\ rres = [op |-> "off"]
    /\ polls = <<>>

TypedIdle == tget = [op |-> "off"]

(***************************************************************************)
(* SpecNorm: normalisation of one raw key, as test::should_eq does it.     *)
(***************************************************************************)
KeyAlphabet == {"a", "b", "0", "1", ".", "[", "]", " "}

\* raw keys with a token made of blanks only
BlankKeys ==
    { <<"a", ".", " ", ".", "b">>, <<"a", "[", " ", "]">>, <<"a", ".", " ", " ", ".", "b">> }

\* raw keys of key_test and of the documentation, with their canonical form
KeyExamples ==
    { << <<"a", ".", "0", ".", "b">>, <<"a", "[", "0", "]", ".", "b">> >>,
      << <<"a", "[", "0", "]", ".", "b">>, <<"a", "[", "0", "]", ".", "b">> >>,
      << <<"[", "0", "]", "p", "r", "e", ".", "p", "r", "o", "p">>,
         <<"[", "0", "]", ".", "p", "r", "e", ".", "p", "r", "o", "p">> >>,
      << <<"[", "]", "p", "r", "e", ".", "p", "r", "o", "p">>,
         <<"p", "r", "e", ".", "p", "r", "o", "p">> >>,
      << <<"1", "[", "1", "]">>, <<"[", "1", "]", "[", "1", "]">> >>,
      << <<"a", ".", "0", "0", "7">>, <<"a", "[", "7", "]">> >>,
      << <<>>, <<>> >>,
      << <<".">>, <<>> >>,
      << <<"[">>, <<>> >> }

InitNorm ==
    /\ origin \in StringsUpTo(KeyAlphabet, MaxKeyLen) \cup {e[1] : e \in KeyExamples} \cup BlankKeys
    /\ phase = "in"
    /\ norm = <<>>
    /\ key = HashKeyNew
    /\ norm2 = <<>>
    /\ kez = HashKeyNew
    /\ KeyIdle
    /\ StoreIdle
    /\ ResolveIdle
    /\ RefreshIdle
    /\ TypedIdle

\* key.push($origin) on a DefaultKey and on a HashKey
Normalize ==
    /\ phase = "in"
    /\ phase' = "once"
    /\ norm' = normalize_key(origin)
    /\ key' = HashKeyPush(HashKeyNew, SubKeySeqOfStr(origin))
    /\ UNCHANGED <<origin, norm2, kez>>
    /\ UNCHANGED <<keyVars, storeVars, resolveVars, refreshVars, typedVars>>

\* kez.push($norm), and the canonical string normalised again
Renormalize ==
    /\ phase = "once"
    /\ phase' = "twice"
    /\ norm2' = normalize_key(norm)
    /\ kez' = HashKeyPush(HashKeyNew, SubKeySeqOfStr(norm))
    /\ UNCHANGED <<origin, norm, key>>
    /\ UNCHANGED <<keyVars, storeVars, resolveVars, refreshVars, typedVars>>

NextNorm == Normalize \/ Renormalize

SpecNorm == InitNorm /\ [][NextNorm]_vars

(***************************************************************************)
(* The canonical key grammar, read off the raw string one character at a   *)
(* time: what C7 compares the code with.                                   *)
(***************************************************************************)
RECURSIVE StripZeros(_)
StripZeros(ds) == IF Len(ds) > 1 /\ Head(ds) = "0" THEN StripZeros(Tail(ds)) ELSE ds

GrammarFlush(out, tok) ==
    IF tok = <<>> THEN out
    ELSE IF \A i \in 1..Len(tok) : tok[i] \in DigitChars
         THEN out \o <<"[">> \o StripZeros(tok) \o <<"]">>
         ELSE (IF out = <<>> THEN <<>> ELSE out \o <<".">>) \o tok

RECURSIVE GrammarScan(_, _, _, _)
GrammarScan(s, i, tok, out) ==
    IF i > Len(s) THEN GrammarFlush(out, tok)
    ELSE IF s[i] \in {".", "[", "]"} THEN GrammarScan(s, i + 1, <<>>, GrammarFlush(out, tok))
    ELSE GrammarScan(s, i + 1, tok \o <<s[i]>>, out)

GrammarNormalize(s) == GrammarScan(s, 1, <<>>, <<>>)

\* C7: for every raw key, the canonical string built by DefaultKey and by
\* HashKey is the one the grammar gives (split on '.', '[', ']', drop empty
\* tokens, an integer token as "[n]", any other as a name with a '.' before it
\* unless it comes first), and the documented examples come out as documented.
C7_Canonical ==
    phase \in {"once", "twice"} =>
        /\ norm = GrammarNormalize(origin)
        /\ HashKeyAsStr(key) = GrammarNormalize(origin)
        /\ \A e \in KeyExamples : origin = e[1] => norm = e[2] /\ HashKeyAsStr(key) = e[2]

\* "a.0.b" has been normalised to "a[0].b"
C7_Witness ==
    /\ phase = "once"
    /\ origin = <<"a", ".", "0", ".", "b">>
    /\ norm = <<"a", "[", "0", "]", ".", "b">>

\* C8: normalising the canonical string again changes nothing, and the key
\* built by pushing the canonical string equals the key built by pushing the
\* raw string.
C8_Idempotent ==
    phase = "twice" => norm2 = norm /\ HashKeyEq(key, kez)

\* a raw key that is not canonical itself has been normalised twice
C8_Witness ==
    /\ phase = "twice"
    /\ origin = <<"a", ".", "0", "1">>
    /\ norm # origin
    /\ norm2 = norm

(***************************************************************************)
(* SpecKey: a DefaultKey and a HashKey pushed and popped together, as      *)
(* test::should_ls does.                                                   *)
(***************************************************************************)
\* the raw keys pushed: those of key_push_test, and some that contribute no sub key
PushInputs ==
    { <<>>, <<".">>, <<"a">>, <<"b">>, <<"1">>, <<"a", ".", "1">>,
      <<"a", "[", "0", "]", ".", "b">> }

InitKey ==
    /\ dkey = DefaultKeyNew
    /\ hkey = HashKeyNew
    /\ before = <<>>
    /\ lastOp = "new"
    /\ popExpect = <<>>
    /\ NormIdle
    /\ StoreIdle
    /\ ResolveIdle
    /\ RefreshIdle
    /\ TypedIdle

PushSeq(seq) ==
    /\ Len(before) < MaxDepth
    /\ dkey' = DefaultKeyPush(dkey, seq)
    /\ hkey' = HashKeyPush(hkey, seq)
    /\ before' = Append(before, HashKeyAsStr(hkey))
    /\ lastOp' = "push"
    /\ UNCHANGED popExpect
    /\ UNCHANGED <<normVars, storeVars, resolveVars, refreshVars, typedVars>>

\* push(&str)
PushStr == \E raw \in PushInputs : PushSeq(SubKeySeqOfStr(raw))

\* push(usize)
PushIndex == \E i \in 0..MaxIndex : PushSeq(SubKeySeqOfInt(i))

\* pop(); on a key with nothing pushed it does nothing
Pop ==
    /\ dkey' = DefaultKeyPop(dkey)
    /\ hkey' = HashKeyPop(hkey)
    /\ before' = IF before = <<>> THEN before ELSE SubSeq(before, 1, Len(before) - 1)
    /\ popExpect' = IF before = <<>> THEN <<>> ELSE before[Len(before)]
    /\ lastOp' = "pop"
    /\ UNCHANGED <<normVars, storeVars, resolveVars, refreshVars, typedVars>>

NextKey == PushStr \/ PushIndex \/ Pop

SpecKey == InitKey /\ [][NextKey]_vars

\* C9: every pop restores as_str() of both key types to the string it was
\* right before the matching push, and with nothing pushed the key is empty.
C9_PushPopStack ==
    /\ lastOp = "pop" =>
           HashKeyAsStr(hkey) = popExpect /\ DefaultKeyAsStr(dkey) = popExpect
    /\ before = <<>> =>
           HashKeyAsStr(hkey) = <<>> /\ DefaultKeyAsStr(dkey) = <<>>

\* a pop has undone a push of several sub keys made above a push of none
C9_Witness ==
    /\ lastOp = "pop"
    /\ Len(before) = 2
    /\ hkey.sub = <<1, 0>>
    /\ popExpect = <<"a">>
    /\ HashKeyAsStr(hkey) = <<"a">>

(***************************************************************************)
(* SpecStore: sources are registered one after the other; each loads       *)
(* through a builder into its cache, which register_source then merges     *)
(* into the Configuration; a ManualSource writes into it directly.         *)
(***************************************************************************)
SrcPushInputs == { <<"k">>, <<"k", "[", "2", "]">> }

SrcIndexInputs == {0}

StoreValues == { <<"x">>, <<"y">> }

ManualKeys == { <<"j">>, <<"k", ".", "0">> }

\* Configuration::new
InitStore ==
    /\ cfg_value = <<>>
    /\ loaders = <<>>
    /\ mode = "idle"
    /\ src_value = <<>>
    /\ builder = BuilderNew
    /\ nops = 0
    /\ gstack = <<>>
    /\ first = <<>>
    /\ pushed = {}
    /\ NormIdle
    /\ KeyIdle
    /\ ResolveIdle
    /\ RefreshIdle
    /\ TypedIdle

GCurr == IF gstack = <<>> THEN <<>> ELSE gstack[Len(gstack)]

\* the paths a push of iter crosses from the path at
Crossed(at, iter) == {at \o SubSeq(iter, 1, n) : n \in 1..Len(iter)}

NoteFirst(path, v) ==
    IF path \in DOMAIN first THEN first
    ELSE [x \in DOMAIN first \cup {path} |-> IF x = path THEN v ELSE first[x]]

\* register_source up to the call of the source's load: CacheConfigSource::load
\* makes a new HashSource and hands its builder to the source
BeginSource ==
    /\ mode = "idle"
    /\ Len(loaders) < MaxSources
    /\ mode' = "loading"
    /\ src_value' = <<>>
    /\ builder' = BuilderNew
    /\ gstack' = <<>>
    /\ UNCHANGED <<cfg_value, loaders, nops, first, pushed>>
    /\ UNCHANGED <<normVars, keyVars, resolveVars, refreshVars, typedVars>>

SrcPushIter(iter) ==
    /\ mode = "loading"
    /\ nops < MaxOps
    /\ LET r == BuilderPush(builder, src_value, iter)
       IN  builder' = r.b /\ src_value' = r.map
    /\ nops' = nops + 1
    /\ gstack' = Append(gstack, GCurr \o iter)
    /\ pushed' = pushed \cup Crossed(GCurr, iter)
    /\ UNCHANGED <<cfg_value, loaders, mode, first>>
    /\ UNCHANGED <<normVars, keyVars, resolveVars, refreshVars, typedVars>>

\* the source pushes a &str key (set, insert_map)
SrcPush == \E raw \in SrcPushInputs : SrcPushIter(PartialKeyIterOfStr(raw))

\* the source pushes an index (insert_array)
SrcPushIndex == \E i \in SrcIndexInputs : SrcPushIter(PartialKeyIterOfInt(i))

\* the source sets a value at a key below the cursor: push, insert, pop
SrcSet ==
    /\ mode = "loading"
    /\ nops < MaxOps
    /\ \E raw \in SrcPushInputs, v \in StoreValues :
          LET iter == PartialKeyIterOfStr(raw)
              r == BuilderSet(builder, src_value, iter, v)
          IN  /\ builder' = r.b
              /\ src_value' = r.map
              /\ first' = NoteFirst(GCurr \o iter, v)
              /\ pushed' = pushed \cup Crossed(GCurr, iter)
    /\ nops' = nops + 1
    /\ UNCHANGED <<cfg_value, loaders, mode, gstack>>
    /\ UNCHANGED <<normVars, keyVars, resolveVars, refreshVars, typedVars>>

\* the source inserts a value at the cursor
SrcInsert ==
    /\ mode = "loading"
    /\ nops < MaxOps
    /\ \E v \in StoreValues :
          /\ LET r == BuilderInsert(builder, src_value, v)
             IN  builder' = r.b /\ src_value' = r.map
          /\ first' = NoteFirst(GCurr, v)
    /\ nops' = nops + 1
    /\ UNCHANGED <<cfg_value, loaders, mode, gstack, pushed>>
    /\ UNCHANGED <<normVars, keyVars, resolveVars, refreshVars, typedVars>>

\* the pop that set, insert_map and insert_array make after their push
SrcPop ==
    /\ mode = "loading"
    /\ builder.key # <<>>
    /\ builder' = BuilderPop(builder)
    /\ gstack' = SubSeq(gstack, 1, Len(gstack) - 1)
    /\ UNCHANGED <<cfg_value, loaders, mode, src_value, nops, first, pushed>>
    /\ UNCHANGED <<normVars, keyVars, resolveVars, refreshVars, typedVars>>

\* the source's load returns: the cache is loaded into the Configuration's map
\* and the loader is kept
FinishSource ==
    /\ mode = "loading"
    /\ builder.key = <<>>
    /\ \E order \in Orderings(ValuedKeys(src_value)) :
          cfg_value' = HashSourceLoad(src_value, order, BuilderNew, cfg_value).map
    /\ loaders' = Append(loaders, src_value)
    /\ mode' = "idle"
    /\ src_value' = <<>>
    /\ builder' = BuilderNew
    /\ UNCHANGED <<nops, gstack, first, pushed>>
    /\ UNCHANGED <<normVars, keyVars, resolveVars, refreshVars, typedVars>>

\* Configuration::register_kv
RegisterKv ==
    /\ mode = "idle"
    /\ Len(loaders) < MaxSources
    /\ mode' = "manual"
    /\ UNCHANGED <<cfg_value, loaders, src_value, builder, nops, gstack, first, pushed>>
    /\ UNCHANGED <<normVars, keyVars, resolveVars, refreshVars, typedVars>>

\* ManualSource::set: HashSource::set on the Configuration's own source
ManualSet ==
    /\ mode = "manual"
    /\ nops < MaxOps
    /\ \E k \in ManualKeys, v \in StoreValues :
          /\ cfg_value' = BuilderSet(BuilderNew, cfg_value, PartialKeyIterOfStr(k), v).map
          /\ first' = NoteFirst(PartialKeyIterOfStr(k), v)
          /\ pushed' = pushed \cup Crossed(<<>>, PartialKeyIterOfStr(k))
    /\ nops' = nops + 1
    /\ UNCHANGED <<loaders, mode, src_value, builder, gstack>>
    /\ UNCHANGED <<normVars, keyVars, resolveVars, refreshVars, typedVars>>

\* ManualSource::finish: the ManualSource's own HashSource, which nothing was
\* set on, is registered
ManualFinish ==
    /\ mode = "manual"
    /\ cfg_value' = HashSourceLoad(<<>>, <<>>, BuilderNew, cfg_value).map
    /\ loaders' = Append(loaders, <<>>)
    /\ mode' = "idle"
    /\ UNCHANGED <<src_value, builder, nops, gstack, first, pushed>>
    /\ UNCHANGED <<normVars, keyVars, resolveVars, refreshVars, typedVars>>

NextStore ==
    \/ BeginSource
    \/ SrcSet
    \/ SrcPush
    \/ SrcPushIndex
    \/ SrcInsert
    \/ SrcPop
    \/ FinishSource
    \/ RegisterKv
    \/ ManualSet
    \/ ManualFinish

SpecStore == InitStore /\ [][NextStore]_vars

Spec == SpecStore

(***************************************************************************)
(* Claims about the layered store.                                         *)
(***************************************************************************)
\* raw keys looked up
LookupKeys == { <<>>, <<"k">>, <<"j">>, <<"k", ".", "2">>, <<".", "k", ".", "0", "0">> }

StoreProbes == LookupKeys \cup {RenderKeys(<<>>, p) : p \in pushed}

\* the Configuration can be read: no register_source is under way
Readable == mode \in {"idle", "manual"}

IsPrefixOf(p, path) == Len(p) <= Len(path) /\ SubSeq(path, 1, Len(p)) = p

\* the sub keys that follow the path p in the paths of the set
NextBelow(p, paths) == {path[Len(p) + 1] : path \in {q \in paths : IsPrefixOf(p, q) /\ Len(q) > Len(p)}}

SetMax(S) == CHOOSE m \in S : \A x \in S : x <= m

\* the children descriptor that the paths of the set give the prefix p
ChildrenFrom(p, paths) ==
    LET below == NextBelow(p, paths)
        idx == {c.i : c \in {b \in below : b.t = "Int"}}
    IN  [str_key |-> {c.s : c \in {b \in below : b.t = "Str"}},
         int_key |-> IF idx = {} THEN None ELSE Some(SetMax(idx) + 1)]

\* C1: first wins.  The scalar that a lookup of any key finds is the value of
\* the first insert that ever reached that key, whatever was inserted there
\* later by the same or a later source, and no other key holds a scalar.
C1_FirstWins ==
    Readable =>
        /\ \A raw \in StoreProbes :
              LET path == SubKeySeqOfStr(raw)
              IN  get_value(cfg_value, HashKeyAsStr(ContextKey(raw)))
                     = IF path \in DOMAIN first THEN Some(first[path]) ELSE None
        /\ \A k \in ValuedKeys(cfg_value) :
              \E path \in DOMAIN first : RenderKeys(<<>>, path) = k

\* two sources hold different values for one key and the first one's is stored
C1_Witness ==
    /\ mode = "idle"
    /\ Len(loaders) = 2
    /\ \E k \in DOMAIN loaders[1] \cap DOMAIN loaders[2] :
          /\ loaders[1][k].value = Some(<<"x">>)
          /\ loaders[2][k].value = Some(<<"y">>)
          /\ get_value(cfg_value, k) = Some(<<"x">>)

\* what C10 says a lookup of a Vec<Option<String>> gives, from the inserts made
VecFromInserts(p) ==
    LET c == ChildrenFrom(p, DOMAIN first)
        n == IF c.int_key = None THEN 0 ELSE c.int_key[1]
    IN  [i \in 1..n |->
            LET e == p \o <<SubKeyInt(i - 1)>>
            IN  IF e \in DOMAIN first THEN Some(first[e]) ELSE None]

\* C10 as amended: the children descriptor of a prefix lists every name and the
\* largest index (plus one) that lie on the path of an insert made below the
\* prefix by any source, and a Vec<Option<String>> lookup has one element per
\* index up to the largest, Some(first value) where a scalar was inserted.
C10_ChildrenUnion ==
    Readable =>
        \A raw \in StoreProbes :
            LET p == SubKeySeqOfStr(raw)
            IN  /\ collect_keys(cfg_value, HashKeyAsStr(ContextKey(raw)))
                      = ChildrenFrom(p, DOMAIN first)
                /\ GetVecOptString(cfg_value, raw) = [ok |-> TRUE, v |-> VecFromInserts(p)]

\* C10 as claimed: the children descriptor lists every name and the largest
\* index that any source pushed below the prefix.
C10_AsClaimed ==
    Readable =>
        \A raw \in StoreProbes :
            collect_keys(cfg_value, HashKeyAsStr(ContextKey(raw)))
                = ChildrenFrom(SubKeySeqOfStr(raw), pushed)

\* k[2] comes from the first source and k[0] from a later writer: the Vec at k
\* has three elements, the middle one None
C10_Witness ==
    /\ mode = "idle"
    /\ Len(loaders) = 2
    /\ get_value(loaders[1], <<"k", "[", "2", "]">>) # None
    /\ get_value(loaders[1], <<"k", "[", "0", "]">>) = None
    /\ LET r == GetVecOptString(cfg_value, <<"k">>)
       IN  r.ok /\ Len(r.v) = 3 /\ r.v[1] # None /\ r.v[2] = None /\ r.v[3] # None

(***************************************************************************)
(* configuration.rs: the placeholder resolver.  A lookup is a stack of     *)
(* do_parse_config calls; a frame is one call inside parse_placeholder.    *)
(***************************************************************************)
\* CacheValue::new
CacheValueNew == [buf |-> <<>>, stack |-> <<>>]

\* CacheValue::clear
CacheValueClear(cv) == [cv EXCEPT !.buf = <<>>, !.stack = <<>>]

\* Result::Ok of a String
Ok(v) == [kind |-> "Ok", a |-> v, b |-> <<>>]

ConfigNotFound(k) == [kind |-> "ConfigNotFound", a |-> k, b |-> <<>>]

ConfigRecursiveNotFound(k) == [kind |-> "ConfigRecursiveNotFound", a |-> k, b |-> <<>>]

ConfigParseError(k, v) == [kind |-> "ConfigParseError", a |-> k, b |-> v]

ConfigRecursiveError(k) == [kind |-> "ConfigRecursiveError", a |-> k, b |-> <<>>]

\* no lookup has returned yet
NoResult == [kind |-> "None", a |-> <<>>, b |-> <<>>]

\* FromConfig for String: FromValue::from_config, String::empty_value,
\* String::from_value
StringFromConfig(ctx, value) ==
    IF value = None THEN ConfigNotFound(HashKeyAsStr(ctx))
    ELSE IF value[1] = <<>> THEN Ok(<<>>)
    ELSE Ok(value[1])

\* with_key_buf whose try_borrow_mut always succeeds
BorrowedNever(frs) == FALSE

\* with_key_buf: try_borrow_mut succeeds unless a call below holds BUF
Borrowed(frs) == \E i \in 1..Len(frs) : frs[i].tl

\* no placeholder is waiting for a nested lookup
NoWait == [on |-> FALSE, key |-> <<>>, def |-> None, last |-> 0, pos |-> 0, hist0 |-> {}]

\* the "$" arm accepting any character after the '$'
DollarOpensAnything(value, pos) == Len(value) # pos

\* the "$" arm accepts: a '{' follows the '$'
DollarOpens(value, pos) == Len(value) # pos /\ value[pos + 1] = "{"

\* the "$" arm: the text before goes to buf, the marker on the stack
OpenMarker(cv, value, pos) ==
    LET buf == cv.buf \o Prefix(value, pos - 1)
    IN  [buf |-> buf, stack |-> Append(cv.stack, Len(buf))]

\* the "\\" arm copying the backslash and not the character after it
EscapeCopyKeepsBackslash(cv, value, pos) ==
    [cv EXCEPT !.buf = @ \o Prefix(value, pos)]

\* the "\\" arm: the text before and the character after the backslash
EscapeCopy(cv, value, pos) ==
    [cv EXCEPT !.buf = (@ \o Prefix(value, pos - 1)) \o <<value[pos + 1]>>]

\* the body of a placeholder split at its last ':'
SplitBodyAtLast(v) ==
    LET colons == {i \in 1..Len(v) : v[i] = ":"}
        p == IF colons = {} THEN 0 ELSE CHOOSE i \in colons : \A j \in colons : j <= i
    IN  IF p > 0 THEN [key |-> Prefix(v, p - 1), def |-> Some(Suffix(v, p))]
        ELSE [key |-> v, def |-> None]

\* the body of a placeholder split at its first ':'
SplitBody(v) ==
    LET p == Find(v, {":"})
    IN  IF p > 0 THEN [key |-> Prefix(v, p - 1), def |-> Some(Suffix(v, p))]
        ELSE [key |-> v, def |-> None]

\* history.insert(key) refusing nothing
HistoryInsertUnchecked(hist, k) == [ok |-> TRUE, set |-> hist \cup {k}]

\* history.insert(key): false when the key is already there
HistoryInsert(hist, k) == [ok |-> k \notin hist, set |-> hist \cup {k}]

\* the placeholder's key staying in the history after its expansion
HistoryKeep(hist, k) == hist

\* history.remove(key)
HistoryRemove(hist, k) == hist \ {k}

\* the match on the nested lookup's result with no use of the default
NotFoundArmIgnoresDefault(r, def) ==
    IF r.kind = "ConfigNotFound" THEN [ok |-> FALSE, v |-> ConfigRecursiveNotFound(r.a)]
    ELSE IF r.kind = "Ok" THEN [ok |-> TRUE, v |-> r.a]
    ELSE [ok |-> FALSE, v |-> r]

\* the match on the nested lookup's result taking the default for every error
NotFoundArmAnyError(r, def) ==
    IF r.kind = "Ok" THEN [ok |-> TRUE, v |-> r.a]
    ELSE IF def # None THEN [ok |-> TRUE, v |-> def[1]]
    ELSE IF r.kind = "ConfigNotFound" THEN [ok |-> FALSE, v |-> ConfigRecursiveNotFound(r.a)]
    ELSE [ok |-> FALSE, v |-> r]

\* the match on the nested lookup's result: the text to splice in, or the
\* error parse_placeholder returns
NotFoundArm(r, def) ==
    IF r.kind = "ConfigNotFound"
    THEN IF def # None THEN [ok |-> TRUE, v |-> def[1]]
         ELSE [ok |-> FALSE, v |-> ConfigRecursiveNotFound(r.a)]
    ELSE IF r.kind = "Ok" THEN [ok |-> TRUE, v |-> r.a]
    ELSE [ok |-> FALSE, v |-> r]

\* cv of a frame: BUF when the frame borrowed it, its own temporary otherwise
CvOf(st, f) == IF f.tl THEN st.BUF ELSE f.cv

\* the state after the top frame's cv and fields are replaced
PutTop(st_, f_, cv_) ==
    Only({
        [st EXCEPT !.frames = [@ EXCEPT ![Len(@)] = IF f.tl THEN f ELSE [f EXCEPT !.cv = cv]],
                   !.BUF = IF f.tl THEN cv ELSE @]
        : st \in {st_}, f \in {f_}, cv \in {cv_}})

\* the frames without the innermost one
PopFrame(frs) == SubSeq(frs, 1, Len(frs) - 1)

\* the canonical keys of the calls in progress
InFlight(frs) == {HashKeyAsStr(frs[i].ctx) : i \in 1..Len(frs)}

\* the resolver's state as one record, for the operators below
St ==
    [frames |-> frames, BUF |-> BUF, history |-> history, pc |-> pc, result |-> result,
     expand |-> expand, reentry |-> reentry, errOrigin |-> errOrigin]

\* the "}" arm after the nested lookup gave text: history.remove(key),
\* buf.truncate(last), buf.push_str(text), value = &value[pos + 1..]
Resume(st_, text_) ==
    Only({
        LET f == st.frames[Len(st.frames)]
            w == f.wait
            cv == CvOf(st, f)
            ncv == [cv EXCEPT !.buf = Prefix(@, w.last) \o text]
            hist == HistoryRemove(st.history, w.key)
            s1 == PutTop(st, [f EXCEPT !.value = Suffix(@, w.pos), !.wait = NoWait], ncv)
        IN  [s1 EXCEPT !.history = hist,
                       !.expand = [seen |-> TRUE, body |-> Suffix(cv.buf, w.last), out |-> "text",
                                   text |-> text, err |-> NoResult, pre |-> Prefix(cv.buf, w.last),
                                   buf |-> ncv.buf, hist0 |-> w.hist0, hist1 |-> hist]]
        : st \in {st_}, text \in {text_}})

RECURSIVE Return(_, _)
\* do_parse_config returns r: to Configuration::get when no frame is left,
\* otherwise to the match of the "}" arm of the innermost frame, whose error
\* leaves parse_placeholder and do_parse_config through `?`
Return(st_, r_) ==
    Only({
        IF st.frames = <<>> THEN [st EXCEPT !.pc = "done", !.result = r]
        ELSE LET f == st.frames[Len(st.frames)]
                 arm == NotFoundArm(r, f.wait.def)
                 cv == CvOf(st, f)
             IN  IF arm.ok THEN Resume(st, arm.v)
                 ELSE IF r.kind = "ConfigNotFound"
                 THEN Return([st EXCEPT
                                  !.frames = PopFrame(@),
                                  !.errOrigin = [why |-> "notfound", depth |-> Len(st.frames),
                                                 at |-> HashKeyAsStr(f.ctx)],
                                  !.expand = [seen |-> TRUE, body |-> Suffix(cv.buf, f.wait.last),
                                              out |-> "err", text |-> <<>>, err |-> arm.v,
                                              pre |-> Prefix(cv.buf, f.wait.last), buf |-> cv.buf,
                                              hist0 |-> f.wait.hist0, hist1 |-> st.history]],
                             arm.v)
                 ELSE Return([st EXCEPT !.frames = PopFrame(@)], arm.v)
        : st \in {st_}, r \in {r_}})

\* an error raised inside parse_placeholder of the innermost frame
Fail(st_, e_, why_) ==
    Only({
        Return([st EXCEPT !.frames = PopFrame(@),
                          !.errOrigin = [why |-> why, depth |-> Len(st.frames),
                                         at |-> HashKeyAsStr(st.frames[Len(st.frames)].ctx)]], e)
        : st \in {st_}, e \in {e_}, why \in {why_}})

\* do_parse_config::<String, &str>(raw, None, history) in a new context:
\* key.push, get_value, then parse_placeholder (cv.clear()) or from_config(None)
Enter(st_, raw_) ==
    Only({
        LET ctx == ContextKey(raw)
            v == get_value(conf, HashKeyAsStr(ctx))
        IN  IF v = None THEN Return(st, StringFromConfig(ctx, None))
            ELSE LET tl == ~Borrowed(st.frames)
                     f == [ctx |-> ctx, val |-> v[1], value |-> v[1], flag |-> TRUE, tl |-> tl,
                           cv |-> CacheValueNew, wait |-> NoWait]
                 IN  [st EXCEPT !.frames = Append(@, f),
                                !.BUF = IF tl THEN CacheValueClear(@) ELSE @,
                                !.pc = "run"]
        : st \in {st_}, raw \in {raw_}})

\* a character that takes more than one byte in UTF-8
EAcute == "U+00E9"

\* the bytes of a character in UTF-8
Utf8Len(c) == IF c = EAcute THEN 2 ELSE 1

\* &value[i..=i], a slice of one byte from the start of the i-th character:
\* it ends on a character boundary, or the slice panics
ByteSliceOk(value, i) == Utf8Len(value[i]) = 1

\* a panic inside parse_placeholder unwinds out of Configuration::get
Panic(st) ==
    [st EXCEPT !.frames = <<>>, !.pc = "panic",
               !.result = [kind |-> "Panic", a |-> <<>>, b |-> <<>>]]

\* the "$" arm
DollarArm(st_) ==
    Only({
        LET f == st.frames[Len(st.frames)]
            cv == CvOf(st, f)
            pos == Find(f.value, PlaceholderPat)
        IN  IF Len(f.value) # pos /\ ~ByteSliceOk(f.value, pos + 1)
            THEN Panic(st)
            ELSE IF ~DollarOpens(f.value, pos)
            THEN Fail(st, ConfigParseError(HashKeyAsStr(f.ctx), f.val), "syntax")
            ELSE PutTop(st, [f EXCEPT !.value = Suffix(@, pos + 1), !.flag = FALSE],
                        OpenMarker(cv, f.value, pos))
        : st \in {st_}})

\* the "\\" arm
BackslashArm(st_) ==
    Only({
        LET f == st.frames[Len(st.frames)]
            cv == CvOf(st, f)
            pos == Find(f.value, PlaceholderPat)
        IN  IF Len(f.value) = pos
            THEN Fail(st, ConfigParseError(HashKeyAsStr(f.ctx), f.val), "syntax")
            ELSE IF ~ByteSliceOk(f.value, pos + 1)
            THEN Panic(st)
            ELSE PutTop(st, [f EXCEPT !.value = Suffix(@, pos + 1), !.flag = FALSE],
                        EscapeCopy(cv, f.value, pos))
        : st \in {st_}})

\* the cycle error naming the key Configuration::get was called with
CycleErrorOfTop(frs) == ConfigRecursiveError(HashKeyAsStr(frs[1].ctx))

\* Err(ConfigRecursiveError(current_key.to_string())): current_key is the key
\* of the call whose value is being scanned
CycleError(frs) == ConfigRecursiveError(HashKeyAsStr(frs[Len(frs)].ctx))

\* the "}" arm up to the nested lookup
CloseArm(st_) ==
    Only({
        LET f == st.frames[Len(st.frames)]
            cv == CvOf(st, f)
            pos == Find(f.value, PlaceholderPat)
        IN  IF cv.stack = <<>>
            THEN Fail(st, ConfigParseError(HashKeyAsStr(f.ctx), f.val), "syntax")
            ELSE LET last == cv.stack[Len(cv.stack)]
                     cv1 == [buf |-> cv.buf \o Prefix(f.value, pos - 1),
                             stack |-> SubSeq(cv.stack, 1, Len(cv.stack) - 1)]
                     sb == SplitBody(Suffix(cv1.buf, last))
                     ins == HistoryInsert(st.history, sb.key)
                     w == [on |-> TRUE, key |-> sb.key, def |-> sb.def, last |-> last,
                           pos |-> pos, hist0 |-> st.history]
                     s1 == PutTop(st, [f EXCEPT !.flag = FALSE, !.wait = w], cv1)
                     s2 == [s1 EXCEPT !.history = ins.set,
                                      !.reentry = @ \/ normalize_key(sb.key) \in InFlight(st.frames)]
                 IN  IF ~ins.ok
                     THEN Fail([s2 EXCEPT !.expand =
                                    [seen |-> TRUE, body |-> Suffix(cv1.buf, last), out |-> "err",
                                     text |-> <<>>, err |-> CycleError(st.frames),
                                     pre |-> Prefix(cv1.buf, last), buf |-> cv1.buf,
                                     hist0 |-> st.history, hist1 |-> ins.set]],
                               CycleError(st.frames), "cycle")
                     ELSE Enter(s2, sb.key)
        : st \in {st_}})

\* after the while loop of parse_placeholder, then T::from_config
EndArm(st_) ==
    Only({
        LET f == st.frames[Len(st.frames)]
            cv == CvOf(st, f)
        IN  IF f.flag
            THEN Return([st EXCEPT !.frames = PopFrame(@)], StringFromConfig(f.ctx, Some(f.val)))
            ELSE IF cv.stack = <<>>
            THEN LET cv1 == [cv EXCEPT !.buf = @ \o f.value]
                     s1 == PutTop(st, f, cv1)
                 IN  Return([s1 EXCEPT !.frames = PopFrame(@)],
                            StringFromConfig(f.ctx, Some(cv1.buf)))
            ELSE Fail(st, ConfigParseError(HashKeyAsStr(f.ctx), f.val), "syntax")
        : st \in {st_}})

(***************************************************************************)
(* SpecResolve: Configuration::get::<String> on a store of placeholders.   *)
(***************************************************************************)
\* the entries of tests::build_config
BuildConfigEntries ==
    << <<<<"a">>, <<"0">>>>,
       <<<<"b">>, <<"$", "{", "b", "}">>>>,
       <<<<"c">>, <<"$", "{", "a", "}">>>>,
       <<<<"d">>, <<"$", "{", "z", "}">>>>,
       <<<<"e">>, <<"$", "{", "z", ":", "}">>>>,
       <<<<"f">>, <<"$", "{", "z", ":", "$", "{", "a", "}", "}">>>>,
       <<<<"g">>, <<"a">>>>,
       <<<<"h">>, <<"$", "{", "$", "{", "g", "}", "}">>>>,
       <<<<"i">>, <<"\\", "$", "\\", "{", "a", "\\", "}">>>>,
       <<<<"j">>, <<"$", "{", "$", "{", "g", "}", ":", "a", "}">>>>,
       <<<<"k">>, <<"$", "{", "a", "}", " ", "$", "{", "a", "}">>>>,
       <<<<"l">>, <<"$", "{", "c", "}">>>>,
       <<<<"m">>, <<"$", "{", "n", "o", "_", "f", "o", "u", "n", "d", ":", "$", "{", "n", "o", "_", "f", "o", "u", "n", "d", "_", "2", ":", "h", "e", "l", "l", "o", "}", "}">>>>,
       <<<<"n">>, <<"$">>>>,
       <<<<"o">>, <<"\\">>>>,
       <<<<"p">>, <<"}">>>>,
       <<<<"q">>, <<"$", "{">>>>,
       <<<<"r">>, <<"$", "{", "a", "}", "s", "u", "f", "f", "i", "x">>>> >>

\* further entries: a malformed value after a failing placeholder, escapes
\* around a placeholder, a cycle through three keys; a value with a ':', a
\* body that takes its ':' from it, from an escape, and a body with two ':';
\* a placeholder nested in a body whose key holds a placeholder itself;
\* defaults behind keys whose own resolution fails
MoreEntries ==
    << <<<<"g", "c">>, <<"z", ":", "q">>>>,
       <<<<"h", "c">>, <<"$", "{", "$", "{", "g", "c", "}", "}">>>>,
       <<<<"e", "c">>, <<"$", "{", "z", "\\", ":", "a", "}">>>>,
       <<<<"f", "c">>, <<"$", "{", "z", ":", "x", ":", "y", "}">>>>,
       <<<<"l", "c">>, <<"$", "{", "$", "{", "c", "}", "}">>>>,
       <<<<"d", "d">>, <<"$", "{", "d", ":", "a", "}">>>>,
       <<<<"b", "d">>, <<"$", "{", "b", ":", "a", "}">>>>,
       <<<<"n", "d">>, <<"$", "{", "n", ":", "a", "}">>>>,
       <<<<"y", "d">>, <<"$", "{", "y", ":", "a", "}">>>>,
       <<<<"u">>, <<"$", "{", "z", "}", "$">>>>,
       <<<<"v">>, <<"x", "\\", "}", "$", "{", "a", "}", "\\", "$", "y">>>>,
       <<<<"w">>, <<"$", "{", "x", "}">>>>,
       <<<<"x">>, <<"$", "{", "y", "}">>>>,
       <<<<"y">>, <<"$", "{", "w", "}">>>> >>

RECURSIVE SetAll(_, _)
\* HashSource::set for each entry in turn
SetAll(map, es) ==
    IF es = <<>> THEN map
    ELSE LET m == BuilderSet(BuilderNew, map, PartialKeyIterOfStr(es[1][1]), es[1][2]).map
         IN  IF DOMAIN m = {} THEN m ELSE SetAll(m, Tail(es))

BaseStore == SetAll(<<>>, BuildConfigEntries \o MoreEntries)

\* the key whose value ranges over every short string
ProbeKey == <<"t">>

ValAlphabet == {"a", "b", "z", "$", "{", "}", ":", "\\"}

\* the keys a lookup asks for: those of the store, and one that is absent
TopKeys ==
    {BuildConfigEntries[i][1] : i \in 1..Len(BuildConfigEntries)}
        \cup {MoreEntries[i][1] : i \in 1..Len(MoreEntries)} \cup {ProbeKey, <<"z">>}

InitResolve ==
    /\ NormIdle
    /\ KeyIdle
    /\ StoreIdle
    /\ RefreshIdle
    /\ TypedIdle
    /\ conf = BaseStore
    /\ frames = <<>>
    /\ BUF = CacheValueNew
    /\ history = {}
    /\ pc = "idle"
    /\ top = <<>>
    /\ result = NoResult
    /\ expand = [seen |-> FALSE]
    /\ reentry = FALSE
    /\ errOrigin = [why |-> "none", depth |-> 0]

\* the variables take the fields of st
Becomes(st) ==
    /\ frames' = st.frames
    /\ BUF' = st.BUF
    /\ history' = st.history
    /\ pc' = st.pc
    /\ result' = st.result
    /\ expand' = st.expand
    /\ reentry' = st.reentry
    /\ errOrigin' = st.errOrigin

\* HashSource::set(ProbeKey, v), v one of vals, while the store is built,
\* before any lookup
SetProbe(vals) ==
    /\ pc = "idle"
    /\ HashKeyAsStr(ContextKey(ProbeKey)) \notin DOMAIN conf
    /\ \E v \in vals :
           conf' = BuilderSet(BuilderNew, conf, PartialKeyIterOfStr(ProbeKey), v).map
    /\ UNCHANGED <<frames, BUF, history, pc, top, result, expand, reentry, errOrigin>>
    /\ UNCHANGED <<normVars, keyVars, storeVars, refreshVars, typedVars>>

\* Configuration::get::<String>(k): parse_config with an empty history.  A
\* store with the probe key is asked for the probe key or the absent key.
Get(k) ==
    /\ pc \in {"idle", "done"}
    /\ HashKeyAsStr(ContextKey(ProbeKey)) \in DOMAIN conf => k \in {ProbeKey, <<"z">>}
    /\ top' = k
    /\ Becomes(Enter([St EXCEPT !.frames = <<>>, !.history = {}, !.result = NoResult,
                                !.expand = [seen |-> FALSE], !.reentry = FALSE,
                                !.errOrigin = [why |-> "none", depth |-> 0]], k))
    /\ UNCHANGED conf
    /\ UNCHANGED <<normVars, keyVars, storeVars, refreshVars, typedVars>>

\* the character value.find(pat) stops at in the innermost frame, "" at the end
AtChar ==
    LET f == frames[Len(frames)]
        pos == Find(f.value, PlaceholderPat)
    IN  IF pos = 0 THEN "" ELSE f.value[pos]

\* one turn of the while loop at a '$'
ScanDollar ==
    /\ pc = "run"
    /\ AtChar = "$"
    /\ \E st \in {DollarArm(St)} : Becomes(st)
    /\ UNCHANGED <<conf, top>>
    /\ UNCHANGED <<normVars, keyVars, storeVars, refreshVars, typedVars>>

\* one turn of the while loop at a '\\'
ScanBackslash ==
    /\ pc = "run"
    /\ AtChar = "\\"
    /\ \E st \in {BackslashArm(St)} : Becomes(st)
    /\ UNCHANGED <<conf, top>>
    /\ UNCHANGED <<normVars, keyVars, storeVars, refreshVars, typedVars>>

\* one turn of the while loop at a '}': the placeholder is looked up, and the
\* loop goes on in the nested call or, when that returned at once, here
ScanClose ==
    /\ pc = "run"
    /\ AtChar = "}"
    /\ Len(frames) < MaxFrames
    /\ \E st \in {CloseArm(St)} : Becomes(st)
    /\ UNCHANGED <<conf, top>>
    /\ UNCHANGED <<normVars, keyVars, storeVars, refreshVars, typedVars>>

\* the loop is over: the innermost call returns to its caller
ScanEnd ==
    /\ pc = "run"
    /\ AtChar = ""
    /\ \E st \in {EndArm(St)} : Becomes(st)
    /\ UNCHANGED <<conf, top>>
    /\ UNCHANGED <<normVars, keyVars, storeVars, refreshVars, typedVars>>

Scan == ScanDollar \/ ScanBackslash \/ ScanClose \/ ScanEnd

NextResolve ==
    \/ SetProbe(StringsUpTo(ValAlphabet, MaxValLen))
    \/ \E k \in TopKeys : Get(k)
    \/ Scan

SpecResolve == InitResolve /\ [][NextResolve]_vars

\* a lookup is one synchronous call: once begun, it runs on
SpecResolveFair == SpecResolve /\ WF_vars(Scan)

(***************************************************************************)
(* The resolver's properties.                                              *)
(***************************************************************************)
\* the stored value of the key the last lookup asked for, None when absent
TopVal == get_value(conf, normalize_key(top))

\* the part of a placeholder body before its first ':'
BodyKey(body) ==
    LET colons == {i \in 1..Len(body) : body[i] = ":"}
    IN  IF colons = {} THEN body
        ELSE SubSeq(body, 1, (CHOOSE i \in colons : \A j \in colons : i <= j) - 1)

\* the part of a placeholder body after its first ':' (the body has one)
BodyDefault(body) == SubSeq(body, Len(BodyKey(body)) + 2, Len(body))

\* C2: a placeholder whose inner key holds no value expands to the text after
\* the first ':' of its body when there is one ("" for an empty default,
\* "hello" for the nested defaults of m, the value of a for f); without a
\* default the lookup fails with ConfigRecursiveNotFound naming the inner key;
\* a top-level key that holds no value gives ConfigNotFound instead.
C2_AbsentInnerKey ==
    /\ expand.seen /\ get_value(conf, normalize_key(BodyKey(expand.body))) = None =>
           IF BodyKey(expand.body) # expand.body
           THEN /\ expand.out = "text"
                /\ expand.text = BodyDefault(expand.body)
                /\ expand.buf = expand.pre \o BodyDefault(expand.body)
           ELSE /\ expand.out = "err"
                /\ pc = "done"
                /\ result = ConfigRecursiveNotFound(normalize_key(expand.body))
    /\ pc = "done" /\ TopVal = None => result = ConfigNotFound(normalize_key(top))
    /\ pc = "done" /\ top = <<"e">> => result = Ok(<<>>)
    /\ pc = "done" /\ top = <<"m">> => result = Ok(<<"h", "e", "l", "l", "o">>)
    /\ pc = "done" /\ top = <<"f">> => result = Ok(<<"0">>)
    /\ pc = "done" /\ top = <<"d">> => result = ConfigRecursiveNotFound(<<"z">>)

\* f = "${z:${a}}" has resolved to the value of a, through the default of z
C2_Witness ==
    /\ pc = "done"
    /\ top = <<"f">>
    /\ expand.seen
    /\ BodyKey(expand.body) = <<"z">>
    /\ expand.text = <<"0">>
    /\ result = Ok(<<"0">>)

\* C3: every lookup that has begun returns; once a placeholder names a key
\* that a call in progress is resolving, the lookup returns
\* ConfigRecursiveError; every lookup returns a value or an error.
C3_Terminates ==
    /\ (pc = "run") ~> (pc = "done")
    /\ [](pc = "done" /\ reentry => result.kind = "ConfigRecursiveError")
    /\ [](pc = "done" => result.kind \in {"Ok", "ConfigNotFound", "ConfigRecursiveNotFound",
                                          "ConfigParseError", "ConfigRecursiveError"})
    /\ [](pc = "done" /\ top = <<"b">> => result = ConfigRecursiveError(<<"b">>))

\* the cycle w -> x -> y -> w has been entered and stopped
C3_Witness ==
    /\ pc = "done"
    /\ top = <<"w">>
    /\ reentry
    /\ result.kind = "ConfigRecursiveError"

\* C4: a placeholder that expanded leaves the history as it was when its '}'
\* was reached; ConfigRecursiveError is returned only when a placeholder
\* named a key that a call in progress was resolving; k = "${a} ${a}" and l,
\* which reaches a through c, resolve.
C4_NoFalseCycle ==
    /\ expand.seen /\ expand.out = "text" => expand.hist1 = expand.hist0
    /\ pc = "done" /\ result.kind = "ConfigRecursiveError" => reentry
    /\ pc = "done" /\ top = <<"k">> => result = Ok(<<"0", " ", "0">>)
    /\ pc = "done" /\ top \in {<<"c">>, <<"l">>} => result = Ok(<<"0">>)

\* k = "${a} ${a}" has resolved, its second placeholder after its first
C4_Witness ==
    /\ pc = "done"
    /\ top = <<"k">>
    /\ expand.seen
    /\ expand.pre = <<"0", " ">>
    /\ expand.hist1 = {}
    /\ result = Ok(<<"0", " ", "0">>)

RECURSIVE EscOnly(_)
\* s holds no '$' and no '}' outside an escape, and no backslash at its end
EscOnly(s) ==
    IF s = <<>> THEN TRUE
    ELSE IF Head(s) = "\\" THEN Len(s) >= 2 /\ EscOnly(SubSeq(s, 3, Len(s)))
    ELSE IF Head(s) \in {"$", "}"} THEN FALSE
    ELSE EscOnly(Tail(s))

RECURSIVE Unescape(_)
\* s without its backslashes, the character after each one kept
Unescape(s) ==
    IF s = <<>> THEN <<>>
    ELSE IF Head(s) = "\\" /\ Len(s) >= 2 THEN <<s[2]>> \o Unescape(SubSeq(s, 3, Len(s)))
    ELSE <<Head(s)>> \o Unescape(Tail(s))

RECURSIVE Malformed(_, _)
\* a '$' not followed by '{', a backslash at the end, a '}' with no "${"
\* open, or a "${" never closed; depth counts the "${" open so far
Malformed(s, depth) ==
    IF s = <<>> THEN depth > 0
    ELSE IF Head(s) = "\\" THEN Len(s) = 1 \/ Malformed(SubSeq(s, 3, Len(s)), depth)
    ELSE IF Head(s) = "$"
    THEN Len(s) = 1 \/ s[2] # "{" \/ Malformed(SubSeq(s, 3, Len(s)), depth + 1)
    ELSE IF Head(s) = "}" THEN depth = 0 \/ Malformed(Tail(s), depth - 1)
    ELSE Malformed(Tail(s), depth)

\* the error of the last lookup came out of a placeholder's own lookup
PlaceholderFailed == errOrigin.why \in {"notfound", "cycle"} \/ errOrigin.depth > 1

LockPoisoned == [kind |-> "LockPoisoned", a |-> <<>>, b |-> <<>>]

TooManyInstances(n) == [kind |-> "TooManyInstances", a |-> n, b |-> <<>>]

ConfigCause(e) == [kind |-> "ConfigCause", a |-> e, b |-> <<>>]

\* Mutex::try_lock
MutexTryLock(m) ==
    CASE m = "free" -> [ok |-> TRUE, e |-> "none"]
      [] m = "held" -> [ok |-> FALSE, e |-> "WouldBlock"]
      [] m = "poisoned" -> [ok |-> FALSE, e |-> "Poisoned"]

\* ConfigError::lock_err
lock_err(e) == LockPoisoned

\* ConfigError::try_lock_err, taking a poisoned lock for a busy one
try_lock_err_AsBusy(e) == None

\* ConfigError::try_lock_err
try_lock_err(e) == IF e = "WouldBlock" THEN None ELSE Some(lock_err(e))

\* ConfigLock::lock_c on a Mutex no other thread holds: Ok(the guard) or the
\* poison error (on a held Mutex the call waits)
lock_c(m) == IF m = "poisoned" THEN lock_err("Poisoned") ELSE Ok("guard")

\* ConfigLock::try_lock_c: Ok(Some(guard)), Err(e) or Ok(None)
try_lock_c(m) ==
    LET t == MutexTryLock(m)
        v == IF t.ok THEN None ELSE try_lock_err(t.e)
    IN  IF t.ok THEN Ok(Some("guard"))
        ELSE IF v # None THEN v[1]
        ELSE Ok(None)

(***************************************************************************)
(* value.rs, source/mod.rs, cache.rs: the sources of value_ref.rs's tests  *)
(* (the refreshable R and a HashSource) behind their CacheConfigSource.    *)
(***************************************************************************)
MaxCells == 2

MaxVal == 1

HelloKey == <<"h", "e", "l", "l", "o">>

\* From<u64> for ConfigValue, of a value up to i64::MAX
ConfigValueInt(n) == [t |-> "Int", v |-> n]

\* R(Arc<Mutex<(u64, bool)>>)
ROrigin(v, f) == [kind |-> "R", val |-> v, flag |-> f, lock |-> "free", map |-> <<>>]

\* a HashSource with the map given
HashOrigin(map) == [kind |-> "Hash", val |-> 0, flag |-> FALSE, lock |-> "free", map |-> map]

\* the HashSources registered: an empty one (multiple_source_refresh_test) and
\* one that holds the key of R
HashMaps ==
    { <<>>,
      BuilderSet(BuilderNew, <<>>, PartialKeyIterOfStr(HelloKey), ConfigValueInt(MaxVal + 1)).map }

\* CacheConfigSource::new
CacheConfigSourceNew(o) == [origin |-> o, cache |-> None, dirty |-> FALSE]

\* ConfigSource::allow_refresh: R's is true, HashSource keeps the default
AllowRefresh(o) == o.kind = "R"

\* R::refreshable leaving its flag as it is
OriginRefreshableKeepsFlag(o) ==
    IF o.kind = "R"
    THEN LET g == lock_c(o.lock)
         IN  IF g.kind # "Ok" THEN [res |-> g, o |-> o]
             ELSE [res |-> Ok(o.flag), o |-> o]
    ELSE [res |-> Ok(FALSE), o |-> o]

\* ConfigSource::refreshable of the origin: R's returns its flag and resets it,
\* HashSource keeps the default
OriginRefreshable(o) ==
    IF o.kind = "R"
    THEN LET g == lock_c(o.lock)
         IN  IF g.kind # "Ok" THEN [res |-> g, o |-> o]
             ELSE [res |-> Ok(o.flag), o |-> [o EXCEPT !.flag = FALSE]]
    ELSE [res |-> Ok(FALSE), o |-> o]

\* ConfigSource::load of the origin into the builder's map
OriginLoad(o, map) ==
    IF o.kind = "R"
    THEN LET g == lock_c(o.lock)
         IN  IF g.kind # "Ok" THEN [res |-> g, map |-> map]
             ELSE [res |-> Ok(<<>>),
                   map |-> BuilderSet(BuilderNew, map, PartialKeyIterOfStr(HelloKey),
                                      ConfigValueInt(o.val)).map]
    ELSE [res |-> Ok(<<>>),
          map |-> HashSourceLoad(o.map, Only(Orderings(ValuedKeys(o.map))), BuilderNew, map).map]

\* CacheConfigSource::load never asking the origin again
CacheLoadStale(c, map) ==
    Only({ IF reloaded /\ r.res.kind # "Ok" THEN [res |-> r.res, c |-> c, map |-> map]
           ELSE Only({ [res |-> Ok(<<>>), c |-> g,
                        map |-> HashSourceLoad(g.cache[1],
                                               Only(Orderings(ValuedKeys(g.cache[1]))),
                                               BuilderNew, map).map]
                       : g \in {IF reloaded
                                THEN [c EXCEPT !.cache = Some(r.map), !.dirty = FALSE]
                                ELSE c} })
           : reloaded \in {c.cache = None}, r \in {OriginLoad(c.origin, <<>>)} })

\* CacheConfigSource::load
CacheLoad(c, map) ==
    Only({ IF reloaded /\ r.res.kind # "Ok" THEN [res |-> r.res, c |-> c, map |-> map]
           ELSE Only({ [res |-> Ok(<<>>), c |-> g,
                        map |-> HashSourceLoad(g.cache[1],
                                               Only(Orderings(ValuedKeys(g.cache[1]))),
                                               BuilderNew, map).map]
                       : g \in {IF reloaded
                                THEN [c EXCEPT !.cache = Some(r.map), !.dirty = FALSE]
                                ELSE c} })
           : reloaded \in {c.dirty \/ c.cache = None}, r \in {OriginLoad(c.origin, <<>>)} })

\* CacheConfigSource::refreshable; polled counts the calls of the origin's
CacheRefreshable(c) ==
    IF ~AllowRefresh(c.origin) THEN [res |-> Ok(FALSE), c |-> c, polled |-> 0]
    ELSE Only({ IF r.res.kind # "Ok" THEN [res |-> r.res, c |-> c, polled |-> 1]
                ELSE [res |-> r.res,
                      c |-> [c EXCEPT !.origin = r.o, !.dirty = r.res.a],
                      polled |-> 1]
                : r \in {OriginRefreshable(c.origin)} })

(***************************************************************************)
(* value_ref.rs, configuration.rs: cells, the Refresher and reload.        *)
(***************************************************************************)
\* Refresher::new: max
RefresherMax == 1024

\* FromValue for u64 of the value kinds a source of this model sets
U64FromValue(v) ==
    IF v.t = "Int" THEN IF v.v >= 0 THEN Ok(v.v) ELSE ConfigCause("TryFromIntError")
    ELSE ConfigCause("ParseIntError")

\* Configuration::get::<u64>: do_parse_config on a value that is no string,
\* then FromConfig for a FromValue type
GetU64(map, raw) ==
    Only({ Only({ IF value = None THEN ConfigNotFound(k) ELSE U64FromValue(value[1])
                  : value \in {get_value(map, k)} })
           : k \in {HashKeyAsStr(ContextKey(raw))} })

\* RefValue::new, with the Mutex the value is in
RefValueNew(k, v) == [key |-> k, val |-> v, lock |-> "free"]

\* RefValue::set
RefValueSet(cell, v) ==
    LET g == lock_c(cell.lock)
    IN  IF g.kind # "Ok" THEN [res |-> g, cell |-> cell]
        ELSE [res |-> Ok(<<>>), cell |-> [cell EXCEPT !.val = v]]

\* RefValue::get (RefValue::with of a clone)
RefValueGet(cell) ==
    LET g == lock_c(cell.lock)
    IN  IF g.kind # "Ok" THEN g ELSE Ok(cell.val)

\* Ref::refresh of RefValue<u64>
RefRefresh(cell, map) ==
    Only({ IF v.kind # "Ok" THEN [res |-> v, cell |-> cell] ELSE RefValueSet(cell, v.a)
           : v \in {GetU64(map, cell.key)} })

\* Refresher::push without the bound
RefresherPushUnbounded(cells, lock, cell, max) ==
    LET g == try_lock_c(lock)
    IN  IF g.kind # "Ok" THEN [res |-> g, cells |-> cells]
        ELSE [res |-> Ok(<<>>), cells |-> Append(cells, cell)]

\* Refresher::push, on a Mutex no other thread holds
RefresherPush(cells, lock, cell, max) ==
    LET g == try_lock_c(lock)
    IN  IF g.kind # "Ok" THEN [res |-> g, cells |-> cells]
        ELSE IF Len(cells) >= max THEN [res |-> TooManyInstances(max), cells |-> cells]
        ELSE [res |-> Ok(<<>>), cells |-> Append(cells, cell)]

RECURSIVE RefreshLoop(_, _, _)
\* the loop of Refresher::refresh: the cells in the order they were pushed,
\* up to the first that fails
RefreshLoop(cells_, i_, map_) ==
    Only({ IF i > Len(cells) THEN [res |-> Ok(<<>>), cells |-> cells]
           ELSE Only({ IF r.res.kind # "Ok" THEN [res |-> r.res, cells |-> cells]
                       ELSE RefreshLoop([cells EXCEPT ![i] = r.cell], i + 1, map)
                       : r \in {RefRefresh(cells[i], map)} })
           : cells \in {cells_}, i \in {i_}, map \in {map_} })

\* Refresher::refresh putting every cell back when one fails
RefresherRefreshRollback(cells, lock, map) ==
    Only({ IF r.res.kind # "Ok" THEN [res |-> r.res, cells |-> cells] ELSE r
           : r \in {IF lock_c(lock).kind # "Ok" THEN [res |-> lock_c(lock), cells |-> cells]
                    ELSE RefreshLoop(cells, 1, map)} })

\* Refresher::refresh
RefresherRefresh(cells, lock, map) ==
    LET g == lock_c(lock)
    IN  IF g.kind # "Ok" THEN [res |-> g, cells |-> cells]
        ELSE RefreshLoop(cells, 1, map)

RECURSIVE PollLoop(_, _, _, _)
\* the first loop of reload: every loader is asked, whatever the ones before
\* it said; a failing poll ends reload
PollLoop(ls_, i_, refreshed_, counts_) ==
    Only({ IF i > Len(ls) THEN [res |-> Ok(refreshed), ls |-> ls, counts |-> counts]
           ELSE Only({ IF r.res.kind # "Ok"
                       THEN [res |-> r.res, ls |-> [ls EXCEPT ![i] = r.c],
                             counts |-> Append(counts, r.polled)]
                       ELSE PollLoop([ls EXCEPT ![i] = r.c], i + 1, refreshed \/ r.res.a,
                                     Append(counts, r.polled))
                       : r \in {CacheRefreshable(ls[i])} })
           : ls \in {ls_}, i \in {i_}, refreshed \in {refreshed_}, counts \in {counts_} })

RECURSIVE LoadLoop(_, _, _)
\* the second loop of reload: every loader loads into the new Configuration,
\* in the order of registration
LoadLoop(ls_, i_, map_) ==
    Only({ IF i > Len(ls) THEN [res |-> Ok(<<>>), ls |-> ls, map |-> map]
           ELSE Only({ IF r.res.kind # "Ok" THEN [res |-> r.res, ls |-> ls, map |-> map]
                       ELSE LoadLoop([ls EXCEPT ![i] = r.c], i + 1, r.map)
                       : r \in {CacheLoad(ls[i], map)} })
           : ls \in {ls_}, i \in {i_}, map \in {map_} })

\* Configuration::refresh replacing its value whatever reload said
RefreshValueAlways(x, old, new) == new

\* Configuration::refresh: self.source.value after reload returned (x, c)
RefreshValue(x, old, new) == IF x THEN new ELSE old

\* Configuration::reload once every loader has loaded: the cells are refreshed
ReloadLoaded(p, l, cells, lock) ==
    IF l.res.kind # "Ok"
    THEN [res |-> l.res, ls |-> l.ls, cells |-> cells, map |-> l.map, counts |-> p.counts]
    ELSE Only({ [res |-> IF f.res.kind # "Ok" THEN f.res ELSE p.res,
                 ls |-> l.ls, cells |-> f.cells, map |-> l.map, counts |-> p.counts]
                : f \in {RefresherRefresh(cells, lock, l.map)} })

\* Configuration::reload: res is Ok(refreshed) or the error, map the value of
\* the new Configuration s
Reload(ls, cells, lock) ==
    Only({ IF p.res.kind # "Ok" \/ ~p.res.a
           THEN [res |-> p.res, ls |-> p.ls, cells |-> cells, map |-> <<>>,
                 counts |-> p.counts]
           ELSE Only({ ReloadLoaded(p, l, cells, lock) : l \in {LoadLoop(p.ls, 1, <<>>)} })
           : p \in {PollLoop(ls, 1, FALSE, <<>>)} })

\* Configuration::get::<RefValue<u64>>: do_parse_config, FromConfig for
\* RefValue outside any other RefValue, do_from_config
GetRefValueU64(map, cells, lock, raw, max) ==
    Only({ IF v.kind # "Ok" THEN [res |-> v, cells |-> cells]
           ELSE RefresherPush(cells, lock,
                              RefValueNew(HashKeyAsStr(ContextKey(raw)), v.a), max)
           : v \in {GetU64(map, raw)} })

\* the store a Configuration::new would hold after loading, in the order of
\* registration, what every origin holds now
RECURSIVE FreshStore(_, _, _)
FreshStore(ls_, i_, map_) ==
    Only({ IF i > Len(ls) THEN map
           ELSE FreshStore(ls, i + 1, OriginLoad(ls[i].origin, map).map)
           : ls \in {ls_}, i \in {i_}, map \in {map_} })

(***************************************************************************)
(* SpecRefresh: sources are registered, their values set, RefValues bound, *)
(* read and dropped, the Configuration refreshed; threads that panic while *)
(* they hold a lock poison it.                                             *)
(***************************************************************************)
BindKeys == {HelloKey, <<"x">>}

\* Configuration::new
InitRefresh ==
    /\ NormIdle
    /\ KeyIdle
    /\ StoreIdle
    /\ ResolveIdle
    /\ TypedIdle
    /\ srcs = <<>>
    /\ store = <<>>
    /\ refs = <<>>
    /\ rlock = "free"
    /\ handles = {}
    /\ rres = [op |-> "new", res |-> Ok(<<>>), at |-> 0, prev |-> NoResult, tick |-> 0]
    /\ polls = <<>>

ReloadOps == {"refresh", "refresh_ref"}

\* what an operation returned; of a reload that follows a reload, prev is what
\* that one returned, and tick tells the two apart
Returns(op, res, at) ==
    rres' = [op |-> op, res |-> res, at |-> at,
             prev |-> IF op \in ReloadOps /\ rres.op \in ReloadOps THEN rres.res ELSE NoResult,
             tick |-> IF op \in ReloadOps THEN 1 - rres.tick ELSE 0]

\* Configuration::register_source
RegisterSource(o) ==
    /\ rlock # "off"
    /\ Len(srcs) < MaxSources
    /\ \E r \in {CacheLoad(CacheConfigSourceNew(o), store)} :
           IF r.res.kind # "Ok"
           THEN UNCHANGED <<srcs, store>> /\ Returns("register", r.res, 0)
           ELSE /\ srcs' = Append(srcs, r.c)
                /\ store' = r.map
                /\ Returns("register", Ok(<<>>), 0)
    /\ polls' = <<>>
    /\ UNCHANGED <<refs, rlock, handles>>
    /\ UNCHANGED <<normVars, keyVars, storeVars, resolveVars, typedVars>>

RegisterR == \E v \in 0..MaxVal, f \in BOOLEAN : RegisterSource(ROrigin(v, f))

RegisterHash == \E m \in HashMaps : RegisterSource(HashOrigin(m))

\* R::set
RSet ==
    /\ rlock # "off"
    /\ \E i \in 1..Len(srcs), v \in 0..MaxVal :
          /\ srcs[i].origin.kind = "R"
          /\ srcs[i].origin.lock = "free"
          /\ srcs' = [srcs EXCEPT ![i].origin.val = v, ![i].origin.flag = TRUE]
          /\ Returns("set", Ok(<<>>), 0)
    /\ polls' = <<>>
    /\ UNCHANGED <<store, refs, rlock, handles>>
    /\ UNCHANGED <<normVars, keyVars, storeVars, resolveVars, typedVars>>

\* Configuration::get::<RefValue<u64>>(k) while no other thread is in the
\* Refresher; keep are the RefValues the caller goes on holding
BindCell(k, keep) ==
    /\ rlock \in {"free", "poisoned"}
    /\ \E r \in {GetRefValueU64(store, refs, rlock, k, RefresherMax)} :
           /\ refs' = r.cells
           /\ handles' = IF r.res.kind = "Ok" THEN keep \cup {Len(r.cells)} ELSE handles
           /\ Returns("bind", r.res, k)
    /\ polls' = <<>>
    /\ UNCHANGED <<srcs, store, rlock>>
    /\ UNCHANGED <<normVars, keyVars, storeVars, resolveVars, typedVars>>

\* let v = config.get::<RefValue<u64>>(k)
Bind == \E k \in BindKeys : Len(refs) < MaxCells /\ BindCell(k, handles)

\* Configuration::refresh
Refresh ==
    /\ rlock \in {"free", "poisoned"}
    /\ \E r \in {Reload(srcs, refs, rlock)} :
           /\ srcs' = r.ls
           /\ refs' = r.cells
           /\ store' = IF r.res.kind = "Ok" THEN RefreshValue(r.res.a, store, r.map) ELSE store
           /\ polls' = r.counts
           /\ Returns("refresh", r.res, 0)
    /\ UNCHANGED <<rlock, handles>>
    /\ UNCHANGED <<normVars, keyVars, storeVars, resolveVars, typedVars>>

\* Configuration::refresh_ref
RefreshRef ==
    /\ rlock \in {"free", "poisoned"}
    /\ \E r \in {Reload(srcs, refs, rlock)} :
           /\ srcs' = r.ls
           /\ refs' = r.cells
           /\ polls' = r.counts
           /\ Returns("refresh_ref", r.res, 0)
    /\ UNCHANGED <<store, rlock, handles>>
    /\ UNCHANGED <<normVars, keyVars, storeVars, resolveVars, typedVars>>

\* RefValue::get on a RefValue the caller holds
Read ==
    /\ \E i \in handles : Returns("read", RefValueGet(refs[i]), i)
    /\ polls' = <<>>
    /\ UNCHANGED <<srcs, store, refs, rlock, handles>>
    /\ UNCHANGED <<normVars, keyVars, storeVars, resolveVars, typedVars>>

\* the caller drops a RefValue
DropHandle ==
    /\ \E i \in handles : handles' = handles \ {i} /\ Returns("drop", Ok(<<>>), 0)
    /\ polls' = <<>>
    /\ UNCHANGED <<srcs, store, refs, rlock>>
    /\ UNCHANGED <<normVars, keyVars, storeVars, resolveVars, typedVars>>

\* a thread panics inside the closure of RefValue::with
CellPanic ==
    /\ \E i \in handles :
          /\ refs[i].lock = "free"
          /\ refs' = [refs EXCEPT ![i].lock = "poisoned"]
          /\ Returns("panic", Ok(<<>>), 0)
    /\ polls' = <<>>
    /\ UNCHANGED <<srcs, store, rlock, handles>>
    /\ UNCHANGED <<normVars, keyVars, storeVars, resolveVars, typedVars>>

\* a thread panics while it holds the lock of an R
SourcePanic ==
    /\ rlock # "off"
    /\ \E i \in 1..Len(srcs) :
          /\ srcs[i].origin.kind = "R"
          /\ srcs[i].origin.lock = "free"
          /\ srcs' = [srcs EXCEPT ![i].origin.lock = "poisoned"]
          /\ Returns("panic", Ok(<<>>), 0)
    /\ polls' = <<>>
    /\ UNCHANGED <<store, refs, rlock, handles>>
    /\ UNCHANGED <<normVars, keyVars, storeVars, resolveVars, typedVars>>

\* another thread takes the lock of Refresher.refs, gives it back, or panics
\* with it
OtherLock ==
    /\ rlock = "free"
    /\ rlock' = "held"
    /\ Returns("other", Ok(<<>>), 0)
    /\ polls' = <<>>
    /\ UNCHANGED <<srcs, store, refs, handles>>
    /\ UNCHANGED <<normVars, keyVars, storeVars, resolveVars, typedVars>>

OtherUnlock ==
    /\ rlock = "held"
    /\ rlock' = "free"
    /\ Returns("other", Ok(<<>>), 0)
    /\ polls' = <<>>
    /\ UNCHANGED <<srcs, store, refs, handles>>
    /\ UNCHANGED <<normVars, keyVars, storeVars, resolveVars, typedVars>>

OtherPanic ==
    /\ rlock = "held"
    /\ rlock' = "poisoned"
    /\ Returns("other", Ok(<<>>), 0)
    /\ polls' = <<>>
    /\ UNCHANGED <<srcs, store, refs, handles>>
    /\ UNCHANGED <<normVars, keyVars, storeVars, resolveVars, typedVars>>

\* Refresher.refs.try_lock_c(), the guard dropped at once
TryLock ==
    /\ rlock # "off"
    /\ Returns("try_lock_c", try_lock_c(rlock), 0)
    /\ polls' = <<>>
    /\ UNCHANGED <<srcs, store, refs, rlock, handles>>
    /\ UNCHANGED <<normVars, keyVars, storeVars, resolveVars, typedVars>>

\* Refresher.refs.lock_c(), the guard dropped at once
Lock ==
    /\ rlock \in {"free", "poisoned"}
    /\ Returns("lock_c", lock_c(rlock), 0)
    /\ polls' = <<>>
    /\ UNCHANGED <<srcs, store, refs, rlock, handles>>
    /\ UNCHANGED <<normVars, keyVars, storeVars, resolveVars, typedVars>>

NextRefresh ==
    \/ RegisterR
    \/ RegisterHash
    \/ RSet
    \/ Bind
    \/ Refresh
    \/ RefreshRef
    \/ Read
    \/ CellPanic
    \/ SourcePanic

SpecRefresh == InitRefresh /\ [][NextRefresh]_vars

(***************************************************************************)
(* SpecLocks: the same Configuration while other threads take the lock of  *)
(* the Refresher, give it back or panic with it; the sources keep their    *)
(* values.                                                                 *)
(***************************************************************************)
NextLocks ==
    \/ RegisterR
    \/ RegisterHash
    \/ Bind
    \/ Refresh
    \/ RefreshRef
    \/ Read
    \/ CellPanic
    \/ SourcePanic
    \/ OtherLock
    \/ OtherUnlock
    \/ OtherPanic
    \/ TryLock
    \/ Lock

SpecLocks == InitRefresh /\ [][NextLocks]_vars

(***************************************************************************)
(* SpecRegistry: a Configuration with one HashSource, from which one       *)
(* variable is bound over and over, the RefValue it held before dropped.   *)
(***************************************************************************)
\* Configuration::new().register_source(a), a the HashSource that holds the key
InitRegistry ==
    /\ NormIdle
    /\ KeyIdle
    /\ StoreIdle
    /\ ResolveIdle
    /\ TypedIdle
    /\ \E m \in HashMaps \ {<<>>} :
          \E r \in {CacheLoad(CacheConfigSourceNew(HashOrigin(m)), <<>>)} :
             srcs = <<r.c>> /\ store = r.map
    /\ refs = <<>>
    /\ rlock = "free"
    /\ handles = {}
    /\ rres = [op |-> "register", res |-> Ok(<<>>), at |-> 0, prev |-> NoResult, tick |-> 0]
    /\ polls = <<>>

\* v = config.get::<RefValue<u64>>(k)
Rebind == \E k \in BindKeys : BindCell(k, {})

NextRegistry == Rebind \/ DropHandle \/ Read

SpecRegistry == InitRegistry /\ [][NextRegistry]_vars

(***************************************************************************)
(* The claims about refresh.                                               *)
(***************************************************************************)
\* the loaders whose origin answers true to the next poll
Flagged(ls) == {i \in 1..Len(ls) : AllowRefresh(ls[i].origin) /\ ls[i].origin.flag}

\* some poll of the next reload fails
PollFails(ls) ==
    \E i \in 1..Len(ls) : AllowRefresh(ls[i].origin) /\ ls[i].origin.lock = "poisoned"

\* this step is a refresh or a refresh_ref
ReloadStep == rres'.op \in ReloadOps /\ rres'.tick # rres.tick

\* C11: a reload in which no poll fails asks every source that allows refresh
\* exactly once, also after one has answered true, and every answer resets
\* the source's flag; the boolean it returns is true exactly when some poll
\* answered true (it returns an error only past the polls, when one did); so a
\* reload right after a reload that returned true returns false, and with no
\* source registered reload returns false.
C11_SingleShot ==
    [][ReloadStep /\ ~PollFails(srcs) =>
          /\ polls' = [i \in 1..Len(srcs) |-> IF AllowRefresh(srcs[i].origin) THEN 1 ELSE 0]
          /\ \A i \in 1..Len(srcs') : ~srcs'[i].origin.flag
          /\ rres'.res.kind = "Ok" => rres'.res.a = (Flagged(srcs) # {})
          /\ rres'.res.kind # "Ok" => Flagged(srcs) # {}
          /\ (rres'.prev.kind = "Ok" /\ rres'.prev.a) => (rres'.res.kind = "Ok" /\ ~rres'.res.a)
          /\ srcs = <<>> => (rres'.res.kind = "Ok" /\ ~rres'.res.a)]_vars

\* a reload right after one that returned true has asked both R once and
\* returned false
C11_Witness ==
    /\ rres.op = "refresh_ref"
    /\ rres.prev.kind = "Ok"
    /\ rres.prev.a
    /\ rres.res.kind = "Ok"
    /\ ~rres.res.a
    /\ Len(srcs) = 2
    /\ polls = <<1, 1>>

\* the origin holds a value at the key of R
DefinesHello(o) == o.kind = "R" \/ get_value(o.map, HelloKey) # None

\* the value the origin holds there now
HelloOf(o) == IF o.kind = "R" THEN o.val ELSE get_value(o.map, HelloKey)[1].v

\* the loaders that hold a value at the key of R, in the order of registration
Defining(ls) == {i \in 1..Len(ls) : DefinesHello(ls[i].origin)}

\* the first of them
FirstDefining(ls) == CHOOSE i \in Defining(ls) : \A j \in Defining(ls) : i <= j

\* the last refresh or refresh_ref returned Ok(true)
Reloaded == rres.op \in ReloadOps /\ rres.res.kind = "Ok" /\ rres.res.a

C13_StoreFrame ==
    [][/\ rres'.op \notin {"register", "refresh"} => store' = store
       /\ (ReloadStep /\ rres'.op = "refresh") =>
             IF rres'.res.kind = "Ok" /\ rres'.res.a
             THEN store' = FreshStore(srcs', 1, <<>>)
             ELSE store' = store
       /\ (ReloadStep /\ rres'.op = "refresh_ref") =>
             \A k \in BindKeys : GetU64(store', k) = GetU64(store, k)]_vars

\* a refresh has returned Ok(true): the Configuration and both cells show the
\* value R holds
C13_Witness ==
    /\ rres.op = "refresh"
    /\ Reloaded
    /\ Len(srcs) = 1
    /\ srcs[1].origin.kind = "R"
    /\ srcs[1].cache # None
    /\ GetU64(store, HelloKey) = Ok(srcs[1].origin.val)
    /\ Len(refs) = 2
    /\ refs[1].val = srcs[1].origin.val
    /\ refs[2].val = srcs[1].origin.val

\* re-resolving the cell against the store fails: its key has no u64 there,
\* or its lock is poisoned
CellFails(cell, map) == GetU64(map, cell.key).kind # "Ok" \/ cell.lock = "poisoned"

\* the cells a refresh against the store cannot re-resolve
Failing(cells, map) == {i \in 1..Len(cells) : CellFails(cells[i], map)}

\* C14: when a reload gets to refresh the cells and some cell cannot be
\* re-resolved, it returns that cell's error; the cells registered before the
\* first such cell hold their new values, that cell and every cell
\* registered after it are as they were.
C14_PartialUpdate ==
    [][(/\ ReloadStep
        /\ ~PollFails(srcs)
        /\ Flagged(srcs) # {}
        /\ Failing(refs, FreshStore(srcs, 1, <<>>)) # {})
       => LET map == FreshStore(srcs, 1, <<>>)
              j == CHOOSE i \in Failing(refs, map) : \A n \in Failing(refs, map) : i <= n
          IN  /\ rres'.res.kind # "Ok"
              /\ rres'.res = IF GetU64(map, refs[j].key).kind # "Ok"
                               THEN GetU64(map, refs[j].key) ELSE LockPoisoned
              /\ Len(refs') = Len(refs)
              /\ \A i \in 1..Len(refs) :
                    IF i < j
                    THEN refs'[i] = [refs[i] EXCEPT !.val = GetU64(map, refs[i].key).a]
                    ELSE refs'[i] = refs[i]]_vars

\* a reload has failed at the second cell, which keeps the value the first
\* cell had before it took the new one
C14_Witness ==
    /\ rres.op \in ReloadOps
    /\ rres.res.kind = "LockPoisoned"
    /\ Len(refs) = 2
    /\ refs[1].lock = "free"
    /\ refs[2].lock = "poisoned"
    /\ refs[1].val # refs[2].val
    /\ refs[1].val = HelloOf(srcs[FirstDefining(srcs)].origin)

\* this step is a Configuration::get::<RefValue<u64>>
BindStep ==
    /\ rres'.op = "bind"
    /\ \/ rres.op # "bind"
       \/ rres'.res.kind # rres.res.kind
       \/ rres'.at # rres.at
       \/ refs' # refs

\* C16: the Refresher never holds more than max = 1024 cells; no step, a drop
\* of a RefValue included, takes a cell out of it or moves one; and binding a
\* key that has a value while it holds max cells fails with
\* TooManyInstances(max) and leaves it as it was.
C16_RegistryBounded ==
    /\ [](Len(refs) <= RefresherMax)
    /\ [][/\ Len(refs') >= Len(refs)
           /\ \A i \in 1..Len(refs) : refs'[i] = refs[i]]_vars
    /\ [][(/\ BindStep
            /\ Len(refs) = RefresherMax
            /\ GetU64(store, rres'.at).kind = "Ok")
           => (/\ rres'.res.kind = "TooManyInstances"
               /\ rres'.res.a = RefresherMax
               /\ refs' = refs)]_vars

\* the Refresher holds max cells, the RefValue of the last is dropped, and
\* one more bind has failed
C16_Witness ==
    /\ Len(refs) = RefresherMax
    /\ handles = {}
    /\ rres.op = "bind"
    /\ rres.res.kind = "TooManyInstances"
    /\ rres.res.a = RefresherMax

MutexStates == {"free", "held", "poisoned"}

\* C19: lock_c on a poisoned Mutex returns LockPoisoned; try_lock_c returns
\* LockPoisoned on a poisoned Mutex, Ok(None) on one another thread holds and
\* on no other, and the guard on a free one; RefValue::get fails with
\* LockPoisoned exactly when the cell's lock is poisoned; a bind that gets to
\* push and a reload that gets to refresh the cells fail with LockPoisoned and
\* change no cell when the Refresher's lock is poisoned, and so does a reload
\* that polls a poisoned R or re-resolves a poisoned cell.
C19_PoisonReported ==
    /\ [](/\ lock_c("poisoned").kind = "LockPoisoned"
           /\ try_lock_c("poisoned").kind = "LockPoisoned"
           /\ (\A m \in MutexStates : (try_lock_c(m) = Ok(None)) <=> (m = "held"))
           /\ (rres.op = "try_lock_c" =>
                 (/\ (rres.res.kind = "LockPoisoned") <=> (rlock = "poisoned")
                  /\ (rres.res.kind = "Ok" /\ rres.res.a = None) <=> (rlock = "held")
                  /\ (rres.res.kind = "Ok" /\ rres.res.a # None) <=> (rlock = "free")))
           /\ (rres.op = "lock_c" =>
                 ((rres.res.kind = "LockPoisoned") <=> (rlock = "poisoned")))
           /\ (rres.op = "read" =>
                 (/\ (rres.res.kind = "LockPoisoned") <=> (refs[rres.at].lock = "poisoned")
                  /\ rres.res.kind \in {"Ok", "LockPoisoned"})))
    /\ [][(BindStep /\ rlock = "poisoned" /\ GetU64(store, rres'.at).kind = "Ok")
           => (rres'.res.kind = "LockPoisoned" /\ refs' = refs)]_vars
    /\ [][(ReloadStep /\ PollFails(srcs)) => rres'.res.kind = "LockPoisoned"]_vars
    /\ [][(/\ ReloadStep
            /\ ~PollFails(srcs)
            /\ Flagged(srcs) # {}
            /\ \/ rlock = "poisoned"
               \/ \E i \in 1..Len(refs) : refs[i].lock = "poisoned")
           => (/\ rres'.res.kind = "LockPoisoned"
               /\ (rlock = "poisoned" => refs' = refs))]_vars

\* with the Refresher's lock and the cell's lock poisoned, a bind of the key
\* that has a value has failed with LockPoisoned
C19_Witness ==
    /\ rlock = "poisoned"
    /\ Len(refs) = 1
    /\ refs[1].lock = "poisoned"
    /\ rres.op = "bind"
    /\ rres.at = HelloKey
    /\ rres.res.kind = "LockPoisoned"

(***************************************************************************)
(* Typed lookups: Configuration::get::<T> for scalars, Option, RefValue    *)
(* and derived structs.                                                    *)
(***************************************************************************)
RefValueRecursiveError == [kind |-> "RefValueRecursiveError", a |-> <<>>, b |-> <<>>]

\* the resolver as Configuration::get and parse_config start it: no call in
\* progress, a new HashSet as history
FreshSt ==
    [frames |-> <<>>, BUF |-> CacheValueNew, history |-> {}, pc |-> "idle", result |-> NoResult,
     expand |-> [seen |-> FALSE], reentry |-> FALSE, errOrigin |-> [why |-> "none", depth |-> 0]]

\* one turn of the while loop of parse_placeholder in the innermost frame:
\* the arm of the character value.find(pat) stops at
Turn(st_) ==
    Only({ Only({ Only({ CASE c = "$" -> DollarArm(st)
                           [] c = "\\" -> BackslashArm(st)
                           [] c = "}" -> CloseArm(st)
                           [] OTHER -> EndArm(st)
                         : c \in {IF pos = 0 THEN "" ELSE value[pos]} })
                  : pos \in {Find(value, PlaceholderPat)} })
           : st \in {st_}, value \in {st_.frames[Len(st_.frames)].value} })

RECURSIVE RunLoop(_)
\* the turns of the loop, nested lookups included, until the outermost
\* do_parse_config::<String> returns
RunLoop(st_) == Only({ IF st.pc # "run" THEN st ELSE RunLoop(Turn(st)) : st \in {st_} })

\* the first half of do_parse_config::<T>: key.push(raw), get_value, and for a
\* string parse_placeholder, whose error leaves through `?`.  The value handed
\* to T::from_config is the one String::from_value returns unchanged.
ParsedValue(raw_) ==
    Only({ IF get_value(conf, HashKeyAsStr(ContextKey(raw))) = None
           THEN [ok |-> TRUE, v |-> None]
           ELSE Only({ IF r.kind = "Ok" THEN [ok |-> TRUE, v |-> Some(r.a)]
                       ELSE [ok |-> FALSE, v |-> r]
                       : r \in {RunLoop(Enter(FreshSt, raw)).result} })
           : raw \in {raw_} })

\* str::to_lowercase on the letters of the model
ToLowercase(s) ==
    LET up == <<"A", "E", "F", "L", "N", "O", "R", "S", "T", "U", "Y">>
        lo == <<"a", "e", "f", "l", "n", "o", "r", "s", "t", "u", "y">>
    IN  [i \in 1..Len(s) |->
            IF \E j \in 1..Len(up) : up[j] = s[i]
            THEN lo[CHOOSE j \in 1..Len(up) : up[j] = s[i]]
            ELSE s[i]]

\* bool_from_str_value
bool_from_str_value(k, value) ==
    LET l == ToLowercase(value)
    IN  IF l \in {<<"t", "r", "u", "e">>, <<"y", "e", "s">>} THEN Ok(TRUE)
        ELSE IF l \in {<<"f", "a", "l", "s", "e">>, <<"n", "o">>} THEN Ok(FALSE)
        ELSE ConfigParseError(k, value)

U8Max == 255

RECURSIVE ParseU8Digits(_, _)
\* the digit loop of str::parse::<u8>: to_digit, checked_mul, checked_add
ParseU8Digits(ds, acc) ==
    IF ds = <<>> THEN Ok(acc)
    ELSE IF Head(ds) \notin DigitChars THEN ConfigCause("InvalidDigit")
    ELSE IF acc * 10 + DigitVal(Head(ds)) > U8Max THEN ConfigCause("PosOverflow")
    ELSE ParseU8Digits(Tail(ds), acc * 10 + DigitVal(Head(ds)))

\* FromValue for u8 on a string: s.parse::<u8>().map_err(ConfigError::from_cause)
U8FromValue(s) ==
    IF s = <<>> THEN ConfigCause("Empty")
    ELSE IF Len(s) = 1 /\ s[1] \in {"+", "-"} THEN ConfigCause("InvalidDigit")
    ELSE ParseU8Digits(IF s[1] = "+" THEN Tail(s) ELSE s, 0)

\* FromValue::empty_value giving the empty value of the type
EmptyValueOfType(ty, k) ==
    CASE ty = <<"bool">> -> Ok(FALSE)
      [] ty = <<"u8">> -> Ok(0)
      [] OTHER -> Ok(<<>>)

\* FromValue::empty_value: its default, and the one of String
EmptyValue(ty, k) == IF ty = <<"String">> THEN Ok(<<>>) ELSE ConfigNotFound(k)

\* FromValue::from_value on a string value that is not empty
FromValue(ty, k, s) ==
    CASE ty = <<"bool">> -> bool_from_str_value(k, s)
      [] ty = <<"u8">> -> U8FromValue(s)
      [] OTHER -> Ok(s)

\* FromConfig for a FromValue type
ScalarFromConfig(ty, k, value) ==
    IF value = None THEN ConfigNotFound(k)
    ELSE IF value[1] = <<>> THEN EmptyValue(ty, k)
    ELSE FromValue(ty, k, value[1])

\* FromConfig for Option<V> turning every error into None
OptionArmAnyError(r) ==
    IF r.kind = "Ok" THEN Ok(Some(r.a)) ELSE Ok(None)

\* FromConfig for Option<V>: the match on what V::from_config returned
OptionArm(r) ==
    IF r.kind = "ConfigNotFound" THEN Ok(None)
    ELSE IF r.kind = "Ok" THEN Ok(Some(r.a))
    ELSE r

\* FromConfig for RefValue<T> without the test of ref_value_flag
RefValueGuardOff(flag) == [err |-> FALSE, flag |-> TRUE]

\* FromConfig for RefValue<T>: the test of context.ref_value_flag, and the
\* flag T::from_config runs under
RefValueGuard(flag) == [err |-> flag, flag |-> TRUE]

\* the types of the model's lookups: a type is the sequence of its
\* constructors, outermost first
ScalarTypes == {<<"String">>, <<"bool">>, <<"u8">>}

\* the fields of the derived structs, in declaration order: A and B of
\* value_ref.rs, and D with a scalar field before its RefValue
StructFields(name) ==
    CASE name = "A" -> <<[key |-> <<"_", "r", "e", "f", "_", "b">>, ty |-> <<"RefValue", "B">>]>>
      [] name = "B" -> <<[key |-> <<"_", "r", "e", "f", "_", "c">>, ty |-> <<"RefValue", "u8">>]>>
      [] name = "D" -> <<[key |-> <<"n">>, ty |-> <<"u8">>],
                         [key |-> <<"r">>, ty |-> <<"RefValue", "u8">>]>>
      [] name = "E" -> <<[key |-> <<"r">>, ty |-> <<"RefValue", "u8">>],
                         [key |-> <<"n">>, ty |-> <<"u8">>]>>
      [] name = "I" -> <<[key |-> <<"x">>, ty |-> <<"String">>]>>
      [] name = "S" -> <<[key |-> <<"r">>, ty |-> <<"Result", "I">>],
                         [key |-> <<"n">>, ty |-> <<"u8">>]>>

RECURSIVE FromConfig(_, _, _, _, _, _)
RECURSIVE ParseConfig(_, _, _, _, _)
RECURSIVE ParseFields(_, _, _, _, _, _, _)
\* T::from_config(context, value) with context.key at raw and
\* context.ref_value_flag = flag; cells and lock are the Refresher's
FromConfig(ty_, raw_, value_, flag_, cells_, lock_) ==
    Only({
        CASE ty \in ScalarTypes ->
               [res |-> ScalarFromConfig(ty, HashKeyAsStr(ContextKey(raw)), value), cells |-> cells]
          [] Head(ty) = "Option" ->
               Only({ [res |-> OptionArm(r.res), cells |-> r.cells]
                      : r \in {FromConfig(Tail(ty), raw, value, flag, cells, lock)} })
          [] Head(ty) = "RefValue" ->
               Only({ IF g.err THEN [res |-> RefValueRecursiveError, cells |-> cells]
                      ELSE Only({
                          IF r.res.kind # "Ok" THEN r
                          ELSE Only({
                              Only({ IF p.res.kind # "Ok" THEN p
                                     ELSE [res |-> Ok(v), cells |-> p.cells]
                                     : p \in {RefresherPush(r.cells, lock, v, RefresherMax)} })
                              : v \in {RefValueNew(HashKeyAsStr(ContextKey(raw)), r.res.a)} })
                          : r \in {FromConfig(Tail(ty), raw, value, g.flag, cells, lock)} })
                      : g \in {RefValueGuard(flag)} })
          [] OTHER -> ParseFields(StructFields(Head(ty)), 1, raw, flag, cells, lock, <<>>)
        : ty \in {ty_}, raw \in {raw_}, value \in {value_}, flag \in {flag_},
          cells \in {cells_}, lock \in {lock_} })

\* context.parse_config::<T>(raw, None): do_parse_config with a new history
ParseConfig(ty_, raw_, flag_, cells_, lock_) ==
    Only({ Only({ IF ~p.ok THEN [res |-> p.v, cells |-> cells]
                  ELSE FromConfig(ty, raw, p.v, flag, cells, lock)
                  : p \in {ParsedValue(raw)} })
           : ty \in {ty_}, raw \in {raw_}, flag \in {flag_}, cells \in {cells_},
             lock \in {lock_} })

\* the from_config cfg-derive writes: one parse_config per field, each
\* leaving through `?` when it fails
ParseFields(fs_, i_, raw_, flag_, cells_, lock_, acc_) ==
    Only({ IF i > Len(fs) THEN [res |-> Ok(acc), cells |-> cells]
           ELSE Only({ IF r.res.kind # "Ok" THEN r
                       ELSE ParseFields(fs, i + 1, raw, flag, r.cells, lock, Append(acc, r.res.a))
                       : r \in {ParseConfig(fs[i].ty, (raw \o <<".">>) \o fs[i].key, flag, cells, lock)} })
           : fs \in {fs_}, i \in {i_}, raw \in {raw_}, flag \in {flag_}, cells \in {cells_},
             lock \in {lock_}, acc \in {acc_} })

\* Configuration::get::<T>(raw)
GetT(ty, raw, cells, lock) == ParseConfig(ty, raw, FALSE, cells, lock)

\* Configuration::get_or::<T>(raw, def)
GetOr(ty_, raw_, def_, cells_, lock_) ==
    Only({ IF r.res.kind # "Ok" THEN r
           ELSE [res |-> Ok(IF r.res.a = None THEN def ELSE r.res.a[1]), cells |-> r.cells]
           : r \in {GetT(<<"Option">> \o ty_, raw_, cells_, lock_)}, def \in {def_} })

(***************************************************************************)
(* SpecTyped: typed lookups on the store of tests::build_config.           *)
(***************************************************************************)
\* further entries: values a bool or a u8 reads, and the empty string
TypedEntries ==
    << <<<<"y">>, <<"Y", "e", "s">>>>,
       <<<<"s">>, <<"$", "{", "z", ":", "n", "o", "}">>>>,
       <<<<"w">>, <<"2", "5", "6">>>>,
       <<<<"x">>, <<"2", "5", "5">>>>,
       <<<<"v">>, <<>>>> >>

TypedStore == SetAll(<<>>, BuildConfigEntries \o TypedEntries)

\* the key the RefValue lookups of recursive_test ask for
HelloRaw == <<"h", "e", "l", "l", "o">>

\* the keys a lookup of a struct at hello reads
HelloKeys ==
    {HelloRaw} \cup {(HelloRaw \o <<".">>) \o s :
                        s \in {<<"_", "r", "e", "f", "_", "b">>, <<"_", "r", "e", "f", "_", "c">>, <<"n">>, <<"r">>,
                               <<"_", "r", "e", "f", "_", "b", ".", "_", "r", "e", "f", "_", "c">>}}

\* what the store holds at them: a number, malformed text, a placeholder of
\* an absent key
HelloVals == {<<"1">>, <<"$">>, <<"$", "{", "z", "}">>}

\* at most this many of the keys at hello hold a value
MaxHello == 2

\* at most this many RefValues are bound
MaxBinds == 1

TypedTypes ==
    ScalarTypes
        \cup {<<"Option">> \o t : t \in ScalarTypes}
        \cup {<<"RefValue", "u8">>, <<"Option", "RefValue", "u8">>, <<"RefValue", "Option", "u8">>,
              <<"B">>, <<"D">>, <<"E">>}

\* RefValue<T> where T is, or holds through structs, another RefValue
NestedTypes ==
    {<<"RefValue", "RefValue", "u8">>, <<"RefValue", "B">>, <<"A">>, <<"RefValue", "A">>,
     <<"RefValue", "D">>}

\* the keys of HelloKeys that hold a value
HelloSet == {k \in HelloKeys : get_value(conf, HashKeyAsStr(ContextKey(k))) # None}

\* the keys asked for on the store as built: plain, cyclic, with an absent
\* inner key, expanding to nothing, malformed, absent, and the further ones
TypedKeys ==
    {<<"a">>, <<"b">>, <<"d">>, <<"e">>, <<"g">>, <<"n">>, <<"z">>}
        \cup {TypedEntries[i][1] : i \in 1..Len(TypedEntries)}

\* the default a get_or passes
DefaultOf(ty) ==
    CASE ty = <<"bool">> -> TRUE
      [] ty = <<"u8">> -> 7
      [] OTHER -> <<"d", "e", "f">>

InitTyped ==
    /\ NormIdle
    /\ KeyIdle
    /\ StoreIdle
    /\ conf = TypedStore
    /\ frames = <<>>
    /\ BUF = CacheValueNew
    /\ history = {}
    /\ pc = "off"
    /\ top = <<>>
    /\ result = NoResult
    /\ expand = [seen |-> FALSE]
    /\ reentry = FALSE
    /\ errOrigin = [why |-> "none", depth |-> 0]
    /\ srcs = <<>>
    /\ store = <<>>
    /\ refs = <<>>
    /\ rlock = "free"
    /\ handles = {}
    /\ rres = [op |-> "off"]
    /\ polls = <<>>
    /\ tget = [op |-> "new"]

\* what a typed lookup leaves alone
TypedFrame ==
    /\ UNCHANGED <<frames, BUF, history, pc, top, result, expand, reentry, errOrigin>>
    /\ UNCHANGED <<srcs, store, rlock, handles, rres, polls>>
    /\ UNCHANGED <<normVars, keyVars, storeVars>>

\* HashSource::set(k, v) for a key at hello, while the store is built
SetHello ==
    /\ tget.op = "new"
    /\ Cardinality(HelloSet) < MaxHello
    /\ \E k \in HelloKeys \ HelloSet : \E v \in HelloVals :
           conf' = BuilderSet(BuilderNew, conf, PartialKeyIterOfStr(k), v).map
    /\ UNCHANGED <<refs, tget>>
    /\ TypedFrame

\* the keys asked for: hello once the store holds a key at hello
AskedKeys == IF HelloSet = {} THEN TypedKeys \cup {HelloRaw} ELSE {HelloRaw}

\* config.get::<T>(k)
GetTyped ==
    /\ \E k \in AskedKeys : \E ty \in TypedTypes \cup NestedTypes :
          /\ ty \notin ScalarTypes => Len(refs) < MaxBinds
          /\ \E r \in {GetT(ty, k, refs, rlock)} :
                /\ tget' = [op |-> "get", key |-> k, ty |-> ty, res |-> r.res,
                             pushed |-> Len(r.cells) - Len(refs)]
                /\ refs' = r.cells
    /\ UNCHANGED conf
    /\ TypedFrame

\* config.get_or::<T>(k, def)
GetOrTyped ==
    /\ \E k \in AskedKeys : \E ty \in ScalarTypes :
          \E r \in {GetOr(ty, k, DefaultOf(ty), refs, rlock)} :
             /\ tget' = [op |-> "get_or", key |-> k, ty |-> ty, res |-> r.res,
                          pushed |-> Len(r.cells) - Len(refs)]
             /\ refs' = r.cells
    /\ UNCHANGED conf
    /\ TypedFrame

NextTyped == SetHello \/ GetTyped \/ GetOrTyped

SpecTyped == InitTyped /\ [][NextTyped]_vars

(***************************************************************************)
(* The claims about typed lookups.                                         *)
(***************************************************************************)
\* two results are the same: the same kind with the same fields
SameResult(x, y) == x.kind = y.kind /\ x.a = y.a /\ x.b = y.b

\* the lookups made on the way to the inner RefValue of a nested type, in
\* order: Option<String> where only the stored value is expanded, the type
\* of the field where a field declared earlier is read
Way(ty) ==
    CASE ty = <<"RefValue", "RefValue", "u8">> ->
           <<[ty |-> <<"Option", "String">>, at |-> <<>>]>>
      [] ty = <<"RefValue", "B">> ->
           <<[ty |-> <<"Option", "String">>, at |-> <<>>],
             [ty |-> <<"Option", "String">>, at |-> <<".", "_", "r", "e", "f", "_", "c">>]>>
      [] ty = <<"A">> ->
           <<[ty |-> <<"Option", "String">>, at |-> <<>>],
             [ty |-> <<"Option", "String">>, at |-> <<".", "_", "r", "e", "f", "_", "b">>],
             [ty |-> <<"Option", "String">>, at |-> <<".", "_", "r", "e", "f", "_", "b", ".", "_", "r", "e", "f", "_", "c">>]>>
      [] ty = <<"RefValue", "A">> ->
           <<[ty |-> <<"Option", "String">>, at |-> <<>>],
             [ty |-> <<"Option", "String">>, at |-> <<".", "_", "r", "e", "f", "_", "b">>]>>
      [] ty = <<"RefValue", "D">> ->
           <<[ty |-> <<"Option", "String">>, at |-> <<>>],
             [ty |-> <<"u8">>, at |-> <<".", "n">>],
             [ty |-> <<"Option", "String">>, at |-> <<".", "r">>]>>

\* what the lookups of Way(ty) return at raw
WayResults(ty, raw) ==
    [i \in 1..Len(Way(ty)) |-> GetT(Way(ty)[i].ty, raw \o Way(ty)[i].at, <<>>, "free").res]

\* the error of the first lookup on the way that fails, RefValueRecursiveError
\* when none does
WayError(ty, raw) ==
    LET rs == WayResults(ty, raw)
        bad == {i \in 1..Len(rs) : rs[i].kind # "Ok"}
    IN  IF bad = {} THEN RefValueRecursiveError
        ELSE rs[CHOOSE i \in bad : \A j \in bad : i <= j]

\* C15 as stated: resolving a RefValue that holds another RefValue fails with
\* RefValueRecursiveError, whatever the store contains.
C15_AsClaimed ==
    (tget.op = "get" /\ tget.ty \in NestedTypes) => tget.res.kind = "RefValueRecursiveError"

\* C15: resolving RefValue<T> where T is, or holds through wrapping structs,
\* another RefValue never succeeds and binds no cell; it fails with
\* RefValueRecursiveError unless a lookup before the inner RefValue fails
\* first (the expansion of the value stored at the key or at the key of a
\* struct field on the way, or a field declared before the one that leads to
\* the inner RefValue), and then with that lookup's error.
C15_NestedRefValue ==
    (tget.op = "get" /\ tget.ty \in NestedTypes) =>
        /\ tget.res.kind # "Ok"
        /\ tget.pushed = 0
        /\ SameResult(tget.res, WayError(tget.ty, tget.key))

\* RefValue<D> at hello, whose field n holds a number, has failed at the
\* RefValue field of D
C15_Witness ==
    /\ tget.op = "get"
    /\ tget.ty = <<"RefValue", "D">>
    /\ tget.key = HelloRaw
    /\ get_value(conf, HashKeyAsStr(ContextKey((HelloRaw \o <<".">>) \o <<"n">>))) = Some(<<"1">>)
    /\ tget.res.kind = "RefValueRecursiveError"

\* C17: get::<Option<T>>(k) returns Ok(None) exactly when resolving T at k
\* fails with ConfigNotFound, Ok(Some(v)) when it gives v, and every other
\* failure (ConfigRecursiveNotFound, ConfigRecursiveError, ConfigParseError, a
\* conversion error) as that error; get_or(k, def) returns def in the first
\* case, v in the second and the error in the third.
C17_OptionOnlyNotFound ==
    /\ (tget.op = "get" /\ Head(tget.ty) = "Option") =>
          \E r \in {GetT(Tail(tget.ty), tget.key, <<>>, "free").res} :
             /\ (r.kind = "ConfigNotFound") <=> (tget.res.kind = "Ok" /\ tget.res.a = None)
             /\ (r.kind = "Ok") => (tget.res.kind = "Ok" /\ tget.res.a = Some(r.a))
             /\ (r.kind \notin {"Ok", "ConfigNotFound"}) => SameResult(tget.res, r)
    /\ (tget.op = "get_or") =>
          \E r \in {GetT(tget.ty, tget.key, <<>>, "free").res} :
             /\ (r.kind = "ConfigNotFound") =>
                   (tget.res.kind = "Ok" /\ tget.res.a = DefaultOf(tget.ty))
             /\ (r.kind = "Ok") => (tget.res.kind = "Ok" /\ tget.res.a = r.a)
             /\ (r.kind \notin {"Ok", "ConfigNotFound"}) => SameResult(tget.res, r)
    /\ (tget.op = "get" /\ tget.ty = <<"Option", "bool">>) =>
          /\ (tget.key = <<"z">>) => (tget.res.kind = "Ok" /\ tget.res.a = None)
          /\ (tget.key = <<"b">>) => SameResult(tget.res, ConfigRecursiveError(<<"b">>))
          /\ (tget.key = <<"d">>) => SameResult(tget.res, ConfigRecursiveNotFound(<<"z">>))
          /\ (tget.key = <<"n">>) => SameResult(tget.res, ConfigParseError(<<"n">>, <<"$">>))
          /\ (tget.key = <<"g">>) => SameResult(tget.res, ConfigParseError(<<"g">>, <<"a">>))
          /\ (tget.key = <<"y">>) => (tget.res.kind = "Ok" /\ tget.res.a = Some(TRUE))
    /\ (tget.op = "get" /\ tget.ty = <<"Option", "u8">> /\ tget.key = <<"g">>) =>
          tget.res.kind = "ConfigCause"
    /\ (tget.op = "get_or" /\ tget.ty = <<"u8">>) =>
          /\ (tget.key = <<"z">>) => (tget.res.kind = "Ok" /\ tget.res.a = 7)
          /\ (tget.key = <<"a">>) => (tget.res.kind = "Ok" /\ tget.res.a = 0)
          /\ (tget.key = <<"w">>) => tget.res.kind = "ConfigCause"
          /\ (tget.key = <<"d">>) => SameResult(tget.res, ConfigRecursiveNotFound(<<"z">>))

\* Option<bool> at d = "${z}", z absent: the lookup has failed with
\* ConfigRecursiveNotFound and not returned None
C17_Witness ==
    /\ tget.op = "get"
    /\ tget.ty = <<"Option", "bool">>
    /\ tget.key = <<"d">>
    /\ tget.res.kind = "ConfigRecursiveNotFound"

\* C18: a value that is, or after placeholder expansion becomes, the empty
\* string is absent for bool and u8, whose lookup fails with ConfigNotFound
\* naming the key, and is the empty string for String, whose lookup gives
\* Ok(""); so for e = "${z:}" with z absent, and for a stored "".
C18_EmptyIsAbsent ==
    /\ (tget.op = "get" /\ tget.ty \in ScalarTypes) =>
          \E p \in {ParsedValue(tget.key)} :
             (p.ok /\ p.v # None /\ p.v[1] = <<>>) =>
                IF tget.ty = <<"String">>
                THEN tget.res.kind = "Ok" /\ tget.res.a = <<>>
                ELSE SameResult(tget.res, ConfigNotFound(normalize_key(tget.key)))
    /\ (tget.op = "get" /\ tget.key \in {<<"e">>, <<"v">>}) =>
          /\ (tget.ty \in {<<"bool">>, <<"u8">>}) =>
                SameResult(tget.res, ConfigNotFound(tget.key))
          /\ (tget.ty = <<"String">>) => (tget.res.kind = "Ok" /\ tget.res.a = <<>>)

\* u8 at e = "${z:}" has failed with ConfigNotFound("e")
C18_Witness ==
    /\ tget.op = "get"
    /\ tget.ty = <<"u8">>
    /\ tget.key = <<"e">>
    /\ get_value(conf, <<"e">>) = Some(<<"$", "{", "z", ":", "}">>)
    /\ get_value(conf, <<"z">>) = None
    /\ tget.res.kind = "ConfigNotFound"
    /\ tget.res.a = <<"e">>

(***************************************************************************)
(* SpecBytes: lookups of values that hold a character of more than one     *)
(* byte.                                                                   *)
(***************************************************************************)
ByteAlphabet == {"a", "$", "{", "}", "\\", EAcute}

\* the probe values are at most this long
MaxByteLen == 3

NextBytes ==
    \/ SetProbe(StringsUpTo(ByteAlphabet, MaxByteLen))
    \/ \E k \in TopKeys : Get(k)
    \/ Scan

SpecBytes == InitResolve /\ [][NextBytes]_vars

\* C20: placeholder scanning never aborts the program: for every string
\* value, also one in which '$' or '\\' is followed by a character of more
\* than one byte or by nothing, a lookup returns a value or a ConfigError.
C20_NeverAborts ==
    /\ pc # "panic"
    /\ pc = "done" => result.kind \in {"Ok", "ConfigNotFound", "ConfigRecursiveNotFound",
                                      "ConfigParseError", "ConfigRecursiveError"}

(***************************************************************************)
(* Further claims about the resolver.                                      *)
(***************************************************************************)
\* C21 as stated: a cycle found at any depth fails with ConfigRecursiveError
\* carrying the key the lookup was called with.
C21_AsClaimed ==
    (pc = "done" /\ result.kind = "ConfigRecursiveError") => result.a = normalize_key(top)

\* C21: a cycle fails with ConfigRecursiveError carrying the key of the call
\* that found it, the key whose value holds the placeholder that names a key
\* already in the history; that is the key of the lookup when the cycle is
\* found in the outermost call or when the chain comes back to that key
\* (b = "${b}", and w of the cycle w, x, y), and an intermediate key when the
\* chain enters a cycle further down (t = "${b}" fails with the key b).
C21_CycleNamesFinder ==
    /\ (pc = "done" /\ result.kind = "ConfigRecursiveError") =>
          /\ errOrigin.why = "cycle"
          /\ result.a = errOrigin.at
          /\ get_value(conf, result.a) # None
          /\ expand.out = "err"
          /\ BodyKey(expand.body) \in expand.hist0
          /\ (errOrigin.depth = 1) => (result.a = normalize_key(top))
    /\ (pc = "done" /\ top = <<"b">>) => result = ConfigRecursiveError(<<"b">>)
    /\ (pc = "done" /\ top = <<"w">>) => result = ConfigRecursiveError(<<"w">>)
    /\ (pc = "done" /\ top = ProbeKey /\ TopVal = Some(<<"$", "{", "b", "}">>)) =>
          result = ConfigRecursiveError(<<"b">>)

\* t = "${b}" with b = "${b}": the lookup of t has failed with the key b of
\* the nested call that met b again
C21_Witness ==
    /\ pc = "done"
    /\ top = ProbeKey
    /\ TopVal = Some(<<"$", "{", "b", "}">>)
    /\ result = ConfigRecursiveError(<<"b">>)
    /\ errOrigin.depth = 2

\* C22: the body of a placeholder is the text the buffer holds from the
\* marker of its "${" when its '}' is reached, nested placeholders expanded
\* and escapes applied, and it is split at its first ':': the part before is
\* the key looked up, the part after the default.  "${${g}}" looks up the key
\* the value of g names, "${${g}:a}" takes "a" as default, and a ':' from a
\* nested value or from "\:" separates key from default as well.
C22_BodySplit ==
    /\ (expand.seen /\ expand.out = "text") =>
          \E v \in {get_value(conf, normalize_key(BodyKey(expand.body)))} :
             /\ (v = None) =>
                   (BodyKey(expand.body) # expand.body /\ expand.text = BodyDefault(expand.body))
             /\ (v # None /\ IsPlain(v[1])) => expand.text = v[1]
    /\ (pc = "done" /\ top = <<"h">>) =>
          (result = Ok(<<"0">>) /\ expand.body = <<"a">>)
    /\ (pc = "done" /\ top = <<"j">>) =>
          (result = Ok(<<"0">>) /\ expand.body = <<"a", ":", "a">>)
    /\ (pc = "done" /\ top = <<"h", "c">>) =>
          (result = Ok(<<"q">>) /\ expand.body = <<"z", ":", "q">>)
    /\ (pc = "done" /\ top = <<"e", "c">>) =>
          (result = Ok(<<"a">>) /\ expand.body = <<"z", ":", "a">>)
    /\ (pc = "done" /\ top = <<"f", "c">>) =>
          (result = Ok(<<"x", ":", "y">>) /\ expand.body = <<"z", ":", "x", ":", "y">>)

\* hc = "${${gc}}" with gc = "z:q" and z absent: the body is the value of gc,
\* whose ':' has made q the default
C22_Witness ==
    /\ pc = "done"
    /\ top = <<"h", "c">>
    /\ expand.seen
    /\ expand.body = <<"z", ":", "q">>
    /\ result = Ok(<<"q">>)

\* a value that is one placeholder "${k:d}" with nothing to expand in k or d
OneHolder(v) ==
    /\ Len(v) >= 4
    /\ v[1] = "$" /\ v[2] = "{" /\ v[Len(v)] = "}"
    /\ IsPlain(SubSeq(v, 3, Len(v) - 1))
    /\ \E i \in 3..(Len(v) - 1) : v[i] = ":"

\* the text between the braces of such a value
Inside(v) == SubSeq(v, 3, Len(v) - 1)

\* C23: a default masks only the absence of the inner key: when the key of
\* "${k:d}" holds a value whose own resolution fails (a cycle, malformed
\* syntax, ConfigRecursiveNotFound from further down), the lookup fails with
\* that error and d is not used; when k holds no value the lookup gives d.
C23_DefaultMasksAbsenceOnly ==
    /\ (pc = "done" /\ TopVal # None /\ OneHolder(TopVal[1])) =>
          \E r \in {RunLoop(Enter(FreshSt, BodyKey(Inside(TopVal[1])))).result} :
             /\ (r.kind = "ConfigNotFound") => result = Ok(BodyDefault(Inside(TopVal[1])))
             /\ (r.kind = "Ok") => result = Ok(r.a)
             /\ (r.kind \notin {"Ok", "ConfigNotFound"}) => result.kind = r.kind
             /\ (r.kind \in {"ConfigParseError", "ConfigRecursiveNotFound"}) => result = r
    /\ (pc = "done" /\ top = <<"d", "d">>) => result = ConfigRecursiveNotFound(<<"z">>)
    /\ (pc = "done" /\ top = <<"b", "d">>) => result = ConfigRecursiveError(<<"b">>)
    /\ (pc = "done" /\ top = <<"n", "d">>) => result = ConfigParseError(<<"n">>, <<"$">>)
    /\ (pc = "done" /\ top = <<"y", "d">>) => result.kind = "ConfigRecursiveError"

\* dd = "${d:a}" with d = "${z}" and z absent: the lookup has failed with the
\* error of d and has not used the default
C23_Witness ==
    /\ pc = "done"
    /\ top = <<"d", "d">>
    /\ get_value(conf, <<"d">>) = Some(<<"$", "{", "z", "}">>)
    /\ get_value(conf, <<"z">>) = None
    /\ result = ConfigRecursiveNotFound(<<"z">>)

(***************************************************************************)
(* Further claims about key normalisation.                                 *)
(***************************************************************************)
\* the tokens of a raw key that are not empty and hold nothing but blanks
BlankTokens(s) ==
    {i \in 1..Len(Split(s)) :
        Split(s)[i] # <<>> /\ \A j \in 1..Len(Split(s)[i]) : Split(s)[i][j] = " "}

\* C24 as stated: tokens of blanks are dropped like empty ones, so "a. .b"
\* normalises as "a.b" does and "a[ ]" as "a" does.
C24_AsClaimed ==
    phase \in {"once", "twice"} =>
        /\ (origin = <<"a", ".", " ", ".", "b">>) => norm = normalize_key(<<"a", ".", "b">>)
        /\ (origin = <<"a", "[", " ", "]">>) => norm = normalize_key(<<"a">>)

\* C24: key parsing drops empty tokens only: every token that is not empty,
\* one made of blanks included, becomes a sub key of its own, and a token of
\* blanks is a name segment spelled with those blanks ("a. .b" stays "a. .b",
\* "a[ ]" becomes "a. ").
C24_BlankTokensKept ==
    phase \in {"once", "twice"} =>
        /\ Len(SubKeySeqOfStr(origin)) = Cardinality({i \in 1..Len(Split(origin)) : Split(origin)[i] # <<>>})
        /\ \A i \in 1..Len(SubKeySeqOfStr(origin)) :
              SubKeySeqOfStr(origin)[i].t = "Str" => \E j \in 1..Len(Split(origin)) : SubKeySeqOfStr(origin)[i].s = Split(origin)[j]
        /\ (BlankTokens(origin) # {}) => \E i \in 1..Len(norm) : norm[i] = " "
        /\ (origin = <<"a", ".", " ", ".", "b">>) =>
              norm = <<"a", ".", " ", ".", "b">> /\ HashKeyAsStr(key) = norm
        /\ (origin = <<"a", "[", " ", "]">>) =>
              norm = <<"a", ".", " ">> /\ HashKeyAsStr(key) = norm
        /\ (origin = <<" ">>) => norm = <<" ">>

\* "a. .b" has been normalised and has kept its token of one blank
C24_Witness ==
    /\ phase = "once"
    /\ origin = <<"a", ".", " ", ".", "b">>
    /\ norm = <<"a", ".", " ", ".", "b">>
    /\ norm # normalize_key(<<"a", ".", "b">>)

(***************************************************************************)
(* SpecContext: typed lookups with the key of the context followed through *)
(* do_parse_config, for scalars, Result<V, ConfigError> and structs.       *)
(***************************************************************************)
RECURSIVE FromConfigAt(_, _, _)
RECURSIVE DoParseConfigAt(_, _, _)
RECURSIVE ParseFieldsAt(_, _, _, _)
\* T::from_config(context, value) with context.key = ck: the result and the
\* key of the context afterwards
FromConfigAt(ty_, key_, value_) ==
    Only({
        CASE ty \in ScalarTypes ->
               [res |-> ScalarFromConfig(ty, HashKeyAsStr(ck), value), key |-> ck]
          [] Head(ty) = "Result" ->
               Only({ [res |-> [kind |-> "Ok", a |-> r.res, b |-> <<>>], key |-> r.key]
                      : r \in {FromConfigAt(Tail(ty), ck, value)} })
          [] OTHER -> ParseFieldsAt(StructFields(Head(ty)), 1, ck, <<>>)
        : ty \in {ty_}, ck \in {key_}, value \in {value_} })

\* do_parse_config::<T>(partial, None, history): key.push, get_value and
\* parse_placeholder (its error leaves through `?`), T::from_config, key.pop
DoParseConfigAt(ty_, key_, partial_) ==
    Only({
        Only({ IF ~p.ok THEN [res |-> p.v, key |-> k1]
               ELSE Only({ [res |-> r.res, key |-> HashKeyPop(r.key)]
                           : r \in {FromConfigAt(ty, k1, p.v)} })
               : p \in {ParsedValue(HashKeyAsStr(k1))} })
        : ty \in {ty_}, k1 \in {HashKeyPush(key_, SubKeySeqOfStr(partial_))} })

\* the from_config cfg-derive writes, on the context's key
ParseFieldsAt(fs_, i_, key_, acc_) ==
    Only({ IF i > Len(fs) THEN [res |-> Ok(acc), key |-> ck]
           ELSE Only({ IF r.res.kind # "Ok" THEN r
                       ELSE ParseFieldsAt(fs, i + 1, r.key, Append(acc, r.res.a))
                       : r \in {DoParseConfigAt(fs[i].ty, ck, fs[i].key)} })
           : fs \in {fs_}, i \in {i_}, ck \in {key_}, acc \in {acc_} })

\* the keys a lookup of the struct S at s reads, and one below its field r
CtxKeys ==
    { <<"s", ".", "r", ".", "x">>, <<"s", ".", "n">>, <<"s", ".", "r", ".", "n">>, <<"s", ".", "r">> }

\* at most this many of them hold a value
MaxCtxSet == 2

CtxSet == {k \in CtxKeys : get_value(conf, HashKeyAsStr(ContextKey(k))) # None}

CtxTypes == {<<"String">>, <<"u8">>, <<"Result", "u8">>, <<"I">>, <<"Result", "I">>, <<"S">>}

\* the keys asked for: the struct and what lies below it, and a plain, a
\* cyclic, a malformed and an absent key of the store as built
CtxAsked == CtxKeys \cup {<<"s">>, <<"a">>, <<"b">>, <<"n">>, <<"z">>}

\* HashSource::set(k, v) for a key below s, while the store is built
SetCtx ==
    /\ tget.op = "new"
    /\ Cardinality(CtxSet) < MaxCtxSet
    /\ \E k \in CtxKeys \ CtxSet : \E v \in HelloVals :
           conf' = BuilderSet(BuilderNew, conf, PartialKeyIterOfStr(k), v).map
    /\ UNCHANGED <<refs, tget>>
    /\ TypedFrame

\* config.get::<T>(k): a new context, parse_config, and the key the context
\* is left with
GetCtx ==
    /\ \E k \in CtxAsked : \E ty \in CtxTypes :
          \E r \in {DoParseConfigAt(ty, HashKeyNew, k)} :
             tget' = [op |-> "ctx", key |-> k, ty |-> ty, res |-> r.res, pushed |-> 0,
                      ctx |-> HashKeyAsStr(r.key)]
    /\ UNCHANGED <<conf, refs>>
    /\ TypedFrame

NextContext == SetCtx \/ GetCtx

SpecContext == InitTyped /\ [][NextContext]_vars

\* C25: do_parse_config leaves the key of the context as it found it on
\* every return path, so after a top-level lookup the key is empty again,
\* whether the lookup succeeded, failed in the conversion or failed in the
\* placeholder expansion; and a struct whose field r: Result<I, ConfigError>
\* holds a failure still reads its next field n at its own prefix.
C25_KeyRestored ==
    tget.op = "ctx" =>
        /\ tget.ctx = <<>>
        /\ (/\ tget.ty = <<"S">>
            /\ tget.key = <<"s">>
            /\ get_value(conf, <<"s", ".", "n">>) = Some(<<"1">>)
            /\ get_value(conf, <<"s", ".", "r">>) = None) => tget.res.kind = "Ok"

\* C26: a resolution started while an outer one holds the thread-local
\* buffer works on a temporary buffer of its own: while nested calls run the
\* thread-local buffer and the outermost frame do not change, and when the
\* nested call of the outermost frame returns the buffer is the one the call
\* was made with, its body replaced by the returned text, its marker stack
\* untouched.  Every resolution starts by clearing its buffer and stack, so a
\* finished lookup has the result the same lookup has on a new thread,
\* whatever earlier lookups (failed ones with open markers too) left behind.
C26_ScratchIsolation ==
    /\ [][ /\ (pc = "run" /\ Len(frames) >= 2 /\ pc' = "run" /\ Len(frames') >= 2) =>
                /\ BUF' = BUF
                /\ frames'[1] = frames[1]
                /\ ~frames'[Len(frames')].tl
           /\ (pc = "run" /\ Len(frames) >= 2 /\ pc' = "run" /\ Len(frames') = 1) =>
                /\ BUF.buf = expand'.pre \o expand'.body
                /\ BUF'.buf = expand'.pre \o expand'.text
                /\ BUF'.stack = BUF.stack
           /\ (pc = "run" /\ Len(frames) >= 2 /\ pc' = "done") => BUF' = BUF
           /\ (pc \in {"idle", "done"} /\ pc' = "run") =>
                BUF' = CacheValueNew /\ frames'[1].tl
         ]_vars
    /\ [](pc = "done" => SameResult(result, RunLoop(Enter(FreshSt, top)).result))

\* a nested call is at work on a buffer of its own while the thread-local
\* buffer holds text and an open marker of the outer call
C26_Witness ==
    /\ pc = "run"
    /\ Len(frames) = 2
    /\ ~frames[2].tl
    /\ frames[2].cv.buf # <<>>
    /\ BUF.buf # <<>>
    /\ BUF.stack # <<>>

(***************************************************************************)
(* SpecManual: values entered by hand through ManualSource, next to a      *)
(* source that can be refreshed.                                           *)
(***************************************************************************)
\* the key set by hand: no source of this model holds it
ManualKey == <<"m">>

\* config.register_kv(name).set(ManualKey, v).finish(): set writes into the
\* Configuration's own HashSource, finish registers the HashSource made by
\* register_kv, which nothing was written to
RegisterKvFinish ==
    /\ rlock # "off"
    /\ Len(srcs) < MaxSources
    /\ \E v \in 0..MaxVal :
          \E r \in {CacheLoad(CacheConfigSourceNew(HashOrigin(<<>>)),
                              BuilderSet(BuilderNew, store, PartialKeyIterOfStr(ManualKey),
                                         ConfigValueInt(v)).map)} :
             /\ srcs' = Append(srcs, r.c)
             /\ store' = r.map
             /\ Returns("register_kv", r.res, 0)
    /\ polls' = <<>>
    /\ UNCHANGED <<refs, rlock, handles>>
    /\ UNCHANGED <<normVars, keyVars, storeVars, resolveVars, typedVars>>

NextManual ==
    \/ RegisterR
    \/ RegisterKvFinish
    \/ RSet
    \/ Refresh
    \/ RefreshRef

SpecManual == InitRefresh /\ [][NextManual]_vars

\* C27: a value entered through ManualSource survives a refresh that returns
\* Ok(true): the key reads the same after the refresh as before it.
C27_ManualSurvives ==
    [][ (/\ rres'.op = "refresh"
         /\ rres'.res.kind = "Ok"
         /\ rres'.res.a
         /\ get_value(store, HashKeyAsStr(ContextKey(ManualKey))) # None) =>
            get_value(store', HashKeyAsStr(ContextKey(ManualKey)))
                = get_value(store, HashKeyAsStr(ContextKey(ManualKey))) ]_vars

(***************************************************************************)
(* Further claims about refresh.                                           *)
(***************************************************************************)
\* C28: no source change is lost to a failed reload: when a reload has
\* failed and the very next operation, a reload again, has completed without
\* error, every bound cell whose lock is sound holds the value its key has in
\* what the sources hold now.
C28_NoChangeLost ==
    (/\ rres.op \in ReloadOps
     /\ rres.prev.kind \notin {"None", "Ok"}
     /\ rres.res.kind = "Ok") =>
        \A i \in 1..Len(refs) :
            refs[i].lock = "free" =>
                \E g \in {GetU64(FreshStore(srcs, 1, <<>>), refs[i].key)} :
                    g.kind = "Ok" /\ g.a = refs[i].val

\* C29: a get that returns an error leaves the refresh registry as it was:
\* no cell pushed while the value was built stays behind.
C29_ErrorLeavesRegistry ==
    (tget.op \in {"get", "get_or"} /\ tget.res.kind # "Ok") => tget.pushed = 0

(***************************************************************************)
(* SpecDefault: RefValues bound through parse_config with a default, as    *)
(* a field with #[config(default = d)] is, next to a source that can be    *)
(* refreshed.                                                              *)
(***************************************************************************)
\* a key no source of this model defines
UndefinedKey == <<"x">>

\* the default of the field
DefaultU64 == MaxVal + 1

\* context.parse_config::<RefValue<u64>>(raw, Some(def.into())):
\* get_value(..).or(default_value), FromConfig for RefValue, do_from_config
ParseRefValueU64Or(map, cells, lock, raw, def, max) ==
    Only({ Only({ IF v.kind # "Ok" THEN [res |-> v, cells |-> cells]
                  ELSE RefresherPush(cells, lock, RefValueNew(k, v.a), max)
                  : v \in {U64FromValue(IF get_value(map, k) = None THEN ConfigValueInt(def)
                                        ELSE get_value(map, k)[1])} })
           : k \in {HashKeyAsStr(ContextKey(raw))} })

\* a struct with the field #[config(default = d)] x: RefValue<u64> is read
BindDefault ==
    /\ rlock \in {"free", "poisoned"}
    /\ Len(refs) < MaxCells
    /\ \E r \in {ParseRefValueU64Or(store, refs, rlock, UndefinedKey, DefaultU64, RefresherMax)} :
           /\ refs' = r.cells
           /\ handles' = IF r.res.kind = "Ok" THEN handles \cup {Len(r.cells)} ELSE handles
           /\ Returns("bind_default", r.res, UndefinedKey)
    /\ polls' = <<>>
    /\ UNCHANGED <<srcs, store, rlock>>
    /\ UNCHANGED <<normVars, keyVars, storeVars, resolveVars, typedVars>>

NextDefault ==
    \/ RegisterR
    \/ RSet
    \/ Bind
    \/ BindDefault
    \/ Refresh
    \/ RefreshRef
    \/ Read

SpecDefault == InitRefresh /\ [][NextDefault]_vars

\* C30: a cell bound with a default at a key no source defines survives a
\* refresh: a reload in which a source reports a change returns Ok(true), not
\* ConfigNotFound, and the cell still holds the default.
C30_DefaultSurvives ==
    [][ (/\ ReloadStep
         /\ Flagged(srcs) # {}
         /\ \E i \in 1..Len(refs) : refs[i].key = HashKeyAsStr(ContextKey(UndefinedKey))) =>
            /\ rres'.res.kind = "Ok"
            /\ rres'.res.a
            /\ \A i \in 1..Len(refs) :
                  refs[i].key = HashKeyAsStr(ContextKey(UndefinedKey)) => refs'[i].val = DefaultU64
      ]_vars

====
